---- MODULE Spec2Model ----
(***************************************************************************)
(* Verification model of the reaplex job queue and worker runtime.         *)
(*                                                                         *)
(* The key-value store is Redis.  A Lua script (EVAL) and a MULTI/EXEC     *)
(* pipeline (redis-py's pipeline() is transactional by default) are each   *)
(* one atomic step of the store; every other command is a step of its own. *)
(*                                                                         *)
(* Redis hands every ARGV value to a script as a Lua string.  Lua 5.1      *)
(* coerces a string to a number in arithmetic (ARGV[2] - started), but a   *)
(* comparison of a number with a string raises "attempt to compare number  *)
(* with string".  The model keeps that: see LuaLessEq and RequeueOneScript.*)
(***************************************************************************)
EXTENDS Integers, Sequences, FiniteSets, TLC

\* ------------------------------------------------------------------ bounds
MaxTime == 5
MaxTimeout == 1
NumWorkers == 2
CoreWorkers == 2
CoreHorizon == 3
ReqWorkers == 2
EnqWorkers == 1
EnqHorizon == 2
NumEnqueuers == 2
MaxJobs == 3
HandledCap == 4
OrdWorkers == 1
FaultWorkers == 2
PollWorkers == 2
PollHorizon == 3
StopWorkers == 1
StopTimeout == 1
GuardWorkers == 1
GuardHorizon == 3
ClassifyCalls == 2
HandlerWorkers == 1
MaxRuns == 2
MaxFetches == 3
CrashWorkers == 2
MaxUrls == 3

\* --------------------------------------------------------------- constants
MAX_ATTEMPTS == 3
NoTime == 0
DequeueTimeout == 1
BackoffSeconds == 1
SmallPage == 2000
StatusOk == 200

Workers == 1..NumWorkers
Enqueuers == 1..NumEnqueuers
Timeouts == 0..MaxTimeout
NoError == "<None>"
NoResult == "<None>"
NoJob == [id |-> 0]
HandlerErrors == {"boom"}
TimeoutError == "Timeout: max attempts exceeded"
StoreErrors == {"Connection refused"}
RunTimeouts == {NoTime, StopTimeout}

\* --------------------------------------------------------------- payloads
\* A payload is a Python dict: a sequence of <<key, value>> pairs in
\* insertion order.  PayloadAr1 and PayloadAr2 are the same dict built in
\* two insertion orders.
PayloadA == << <<"url", "https://a.test">> >>
PayloadAr1 == << <<"render_js", "true">>, <<"url", "https://a.test">> >>
PayloadAr2 == << <<"url", "https://a.test">>, <<"render_js", "true">> >>
Payloads == {PayloadA, PayloadAr1, PayloadAr2}

\* Python's string order on the keys in use.
KeyOrder == <<"render_js", "url">>
KeyRank(k) == CHOOSE i \in 1..Len(KeyOrder) : KeyOrder[i] = k

RECURSIVE SortKeys(_)
SortKeys(p) ==
  IF p = <<>> THEN <<>>
  ELSE LET m == CHOOSE i \in 1..Len(p) :
                  \A j \in 1..Len(p) : KeyRank(p[i][1]) <= KeyRank(p[j][1])
           rest == [i \in 1..(Len(p) - 1) |-> IF i < m THEN p[i] ELSE p[i + 1]]
       IN <<p[m]>> \o SortKeys(rest)

\* A fingerprint of the text as the caller wrote it, keys unsorted.
hash_payload_unsorted(p) == <<"sha256", p>>

\* json.dumps(payload, sort_keys=True), then sha256: the digest is taken to
\* be collision-free, so it is the tagged canonical text.
hash_payload(p) == <<"sha256", SortKeys(p)>>

VARIABLES
  seen,        \* queue:seen        set of fingerprints
  pending,     \* queue:pending     list, head first (LPUSH at 1, RPOP at Len)
  processing,  \* queue:processing  hash id -> job
  done,        \* queue:done        set of ids
  failed,      \* queue:failed      hash id -> job
  now,         \* time.time()
  created,     \* history: created[i] is the job minted with id i
  handled,     \* history: handled[i] counts handler invocations for job i
  ran,         \* history: ran[i] is the set of executors run for job i
  ret,         \* the last queue call that returned: [op, ok, n]
  conf,        \* the deployment: [workers, horizon, payloads, timeout]
  call,        \* a call of the handler side under study, with its trace
  files,       \* the artifacts under data/: [raw, structured], job ids
  wpc, wjob, wrun, wshut, werr,   \* the Worker objects
  wdead,                          \* deadline of a worker's dequeue call
  wstart,                         \* start_time of a worker's start() call
  rpc, rkeys, rmoved, rtimeout,   \* the reaper's requeue_stale call
  rjob,                           \* job_data of the fallback _requeue_one
  epc                             \* the producers' enqueue calls

qvars == <<seen, pending, processing, done, failed>>
hvars == <<created, handled, ran>>
wvars == <<wpc, wjob, wrun, wshut, werr, wdead, wstart>>
rvars == <<rpc, rkeys, rmoved, rtimeout, rjob>>
vars == <<qvars, now, hvars, ret, conf, call, files, wvars, rvars, epc>>

\* ------------------------------------------------------------ store helpers
HSet(h, k, v) == [x \in (DOMAIN h) \cup {k} |-> IF x = k THEN v ELSE h[x]]
HDel(h, k) == [x \in (DOMAIN h) \ {k} |-> h[x]]
HGet(h, k) == IF k \in DOMAIN h THEN h[k] ELSE NoJob
LPush(l, v) == <<v>> \o l
RPopped(l) == SubSeq(l, 1, Len(l) - 1)
LPopped(l) == SubSeq(l, 2, Len(l))
EmptyHash == [x \in {} |-> NoJob]

\* models.py: Job(payload=payload); uuid4 is a fresh id.
Job(i, p) ==
  [id |-> i, payload |-> p, attempts |-> 0, started_at |-> NoTime,
   error |-> NoError, failed_at |-> NoTime]

Returned(op, ok, n) == [op |-> op, ok |-> ok, n |-> n]

\* A producer outside enqueue: it holds no job.
NoEnqueue == [pc |-> "idle", job |-> NoJob]

\* ------------------------------------------------------- Lua 5.1 values
\* What a script sees: ARGV[i] is a string, a decoded JSON number and the
\* result of an arithmetic operator are numbers.
LuaString(x) == [t |-> "string", v |-> x]
LuaNumber(x) == [t |-> "number", v |-> x]
\* a - b: strings are coerced to numbers.
LuaSub(a, b) == LuaNumber(a.v - b.v)
\* a <= b and a < b: defined for two numbers (two strings compare as text,
\* which no script here does); a number against a string raises.
LuaLessEq(a, b) ==
  IF a.t = "number" /\ b.t = "number"
    THEN [raised |-> FALSE, val |-> a.v <= b.v]
    ELSE [raised |-> TRUE, val |-> FALSE]
LuaLess(a, b) ==
  IF a.t = "number" /\ b.t = "number"
    THEN [raised |-> FALSE, val |-> a.v < b.v]
    ELSE [raised |-> TRUE, val |-> FALSE]

\* The five keys as one value, so that a script is a function of the store.
Store ==
  [seen |-> seen, pending |-> pending, processing |-> processing,
   done |-> done, failed |-> failed]
SetStore(s) ==
  /\ seen' = s.seen
  /\ pending' = s.pending
  /\ processing' = s.processing
  /\ done' = s.done
  /\ failed' = s.failed

\* ---------------------------------------------------------------- scripts
\* An enqueue that records the fingerprint and reports success without
\* pushing the job.
EnqueueScriptNoPush(s, h, job) ==
  IF h \notin s.seen
    THEN [s |-> [s EXCEPT !.seen = @ \cup {h}], r |-> 1]
    ELSE [s |-> s, r |-> 0]

\* enqueue: SADD, and LPUSH when the member is new.
EnqueueScript(s, h, job) ==
  IF h \notin s.seen
    THEN [s |-> [s EXCEPT !.seen = @ \cup {h}, !.pending = LPush(@, job)],
          r |-> 1]
    ELSE [s |-> s, r |-> 0]

\* A dequeue that stores the job as popped, without stamping started_at.
DequeueOnceScriptNoStamp(s, t) ==
  IF s.pending = <<>>
    THEN [s |-> s, r |-> NoJob]
    ELSE LET raw == s.pending[Len(s.pending)]
         IN [s |-> [s EXCEPT !.pending = RPopped(@),
                             !.processing = HSet(@, raw.id, raw)],
             r |-> raw]

\* A dequeue that pops the head of PENDING, the end enqueue pushes to.
DequeueOnceScriptHead(s, t) ==
  IF s.pending = <<>>
    THEN [s |-> s, r |-> NoJob]
    ELSE LET raw == s.pending[1]
             updated == [raw EXCEPT !.started_at = t]
         IN [s |-> [s EXCEPT !.pending = LPopped(@),
                             !.processing = HSet(@, raw.id, updated)],
             r |-> updated]

\* _dequeue_once: RPOP; job.started_at = tonumber(ARGV[1]); HSET.
DequeueOnceScript(s, t) ==
  IF s.pending = <<>>
    THEN [s |-> s, r |-> NoJob]
    ELSE LET raw == s.pending[Len(s.pending)]
             updated == [raw EXCEPT !.started_at = t]
         IN [s |-> [s EXCEPT !.pending = RPopped(@),
                             !.processing = HSet(@, raw.id, updated)],
             r |-> updated]

\* ack_success: pipeline of HDEL PROCESSING and SADD DONE.
AckSuccessPipeline(s, id) ==
  [s EXCEPT !.processing = HDel(@, id), !.done = @ \cup {id}]

\* An ack_failure that overwrites the whole FAILED key with the one job.
AckFailureScriptSet(s, id, error, t) ==
  IF id \notin DOMAIN s.processing
    THEN [s |-> s, r |-> 0]
    ELSE LET job == [s.processing[id] EXCEPT !.error = error, !.failed_at = t]
         IN [s |-> [s EXCEPT !.failed = HSet(EmptyHash, id, job),
                             !.processing = HDel(@, id)],
             r |-> 1]

\* ack_failure: HGET; set error and failed_at; HSET FAILED; HDEL PROCESSING.
AckFailureScript(s, id, error, t) ==
  IF id \notin DOMAIN s.processing
    THEN [s |-> s, r |-> 0]
    ELSE LET job == [s.processing[id] EXCEPT !.error = error, !.failed_at = t]
         IN [s |-> [s EXCEPT !.failed = HSet(@, id, job),
                             !.processing = HDel(@, id)],
             r |-> 1]

\* A _requeue_one whose comparisons are between numbers and whose
\* staleness test lets the boundary elapsed = timeout count as stale.
RequeueOneScriptStrict(s, id, t, timeout, max) ==
  IF id \notin DOMAIN s.processing
    THEN [s |-> s, r |-> 0, raised |-> FALSE]
    ELSE
      LET job == s.processing[id]
          moved == [job EXCEPT !.attempts = @ + 1, !.started_at = NoTime]
          dead == [moved EXCEPT !.error = TimeoutError, !.failed_at = t]
      IN IF (t - job.started_at) < timeout
           THEN [s |-> s, r |-> 0, raised |-> FALSE]
         ELSE IF moved.attempts < max
           THEN [s |-> [s EXCEPT !.pending = LPush(@, moved),
                                 !.processing = HDel(@, id)],
                 r |-> 1, raised |-> FALSE]
           ELSE [s |-> [s EXCEPT !.failed = HSet(@, job.id, dead),
                                 !.processing = HDel(@, id)],
                 r |-> 1, raised |-> FALSE]

\* _requeue_one: ARGV = job_id, time.time(), timeout, MAX_ATTEMPTS.  The
\* staleness test compares the number ARGV[2] - started with the string
\* ARGV[3], and the attempts test the number job.attempts with the string
\* ARGV[4].
RequeueOneScript(s, id, t, timeout, max) ==
  IF id \notin DOMAIN s.processing
    THEN [s |-> s, r |-> 0, raised |-> FALSE]
    ELSE
      LET job == s.processing[id]
          started == LuaNumber(job.started_at)
          fresh == LuaLessEq(LuaSub(LuaString(t), started), LuaString(timeout))
          moved == [job EXCEPT !.attempts = @ + 1, !.started_at = NoTime]
          retry == LuaLess(LuaNumber(moved.attempts), LuaString(max))
          dead == [moved EXCEPT !.error = TimeoutError, !.failed_at = t]
      IN IF fresh.raised THEN [s |-> s, r |-> 0, raised |-> TRUE]
         ELSE IF fresh.val THEN [s |-> s, r |-> 0, raised |-> FALSE]
         ELSE IF retry.raised THEN [s |-> s, r |-> 0, raised |-> TRUE]
         ELSE IF retry.val
           THEN [s |-> [s EXCEPT !.pending = LPush(@, moved),
                                 !.processing = HDel(@, id)],
                 r |-> 1, raised |-> FALSE]
           ELSE [s |-> [s EXCEPT !.failed = HSet(@, job.id, dead),
                                 !.processing = HDel(@, id)],
                 r |-> 1, raised |-> FALSE]

\* requeue_stale 165-184 run at time t with no other client in between:
\* the keys of the HSCAN reply are passed to the script of _requeue_one in
\* the order of the reply and the moves are counted; an error of the
\* script leaves the call, with what the earlier keys have moved and no
\* return value.
RECURSIVE RequeueStaleScript(_, _, _, _)
RequeueStaleScript(s, keys, t, timeout) ==
  IF keys = <<>>
    THEN [s |-> s, n |-> 0, raised |-> FALSE]
    ELSE LET one == RequeueOneScript(s, Head(keys), t, timeout, MAX_ATTEMPTS)
             rest == RequeueStaleScript(one.s, Tail(keys), t, timeout)
         IN IF one.raised
              THEN [s |-> s, n |-> 0, raised |-> TRUE]
              ELSE [rest EXCEPT !.n = IF rest.raised THEN 0 ELSE @ + one.r]

\* ----------------------------------------------------------------- Init
\* A deployment is a number of started Worker objects, the span of the
\* clock, the payloads the producers submit and the timeout the workers'
\* start() is given (NoTime for None); the store is empty and no call is in
\* progress.
TimedDeployment(nw, horizon, ps, timeout) ==
  [workers |-> nw, horizon |-> horizon, payloads |-> ps, timeout |-> timeout]

Deployment(nw, horizon, ps) == TimedDeployment(nw, horizon, ps, NoTime)

InitQueue ==
  /\ seen = {}
  /\ pending = <<>>
  /\ processing = EmptyHash
  /\ done = {}
  /\ failed = EmptyHash
  /\ now = 1
  /\ created = <<>>
  /\ handled = <<>>
  /\ ran = <<>>
  /\ ret = Returned("none", TRUE, 0)

\* Worker.__init__ for every worker, and start() for those deployed.
InitWorkers ==
  /\ wpc = [w \in Workers |-> IF w <= conf.workers THEN "loop" ELSE "new"]
  /\ wjob = [w \in Workers |-> NoJob]
  /\ wrun = [w \in Workers |-> w <= conf.workers]
  /\ wshut = [w \in Workers |-> FALSE]
  /\ werr = [w \in Workers |-> NoError]
  /\ wdead = [w \in Workers |-> NoTime]
  /\ wstart = [w \in Workers |-> IF w <= conf.workers THEN now ELSE NoTime]

InitClients ==
  /\ rpc = "idle"
  /\ rkeys = {}
  /\ rmoved = 0
  /\ rtimeout = 0
  /\ rjob = NoJob
  /\ epc = [c \in Enqueuers |-> NoEnqueue]

NoCall == [op |-> "none"]

NoFiles == [raw |-> {}, structured |-> {}]

InitSystem(d) ==
  conf = d /\ files = NoFiles /\ InitQueue /\ InitWorkers /\ InitClients

InitWith(d) == call = NoCall /\ InitSystem(d)

\* ------------------------------------------------------------- the clock
Tick ==
  /\ now < conf.horizon
  /\ now' = now + 1
  /\ UNCHANGED <<qvars, hvars, ret, conf, call, files, wvars, rvars, epc>>

\* ---------------------------------------------------------------- enqueue
\* Queue.enqueue, scripted: one EVAL.
Enqueue(p) ==
  LET i == Len(created) + 1
      res == EnqueueScript(Store, hash_payload(p), Job(i, p))
  IN /\ SetStore(res.s)
     /\ IF res.r = 1
          THEN /\ created' = Append(created, [payload |-> p, fresh |-> TRUE])
               /\ handled' = Append(handled, 0)
               /\ ran' = Append(ran, {})
          ELSE UNCHANGED hvars
     /\ ret' = Returned("enqueue", res.r = 1, 0)
     /\ UNCHANGED <<now, conf, call, files, wvars, rvars, epc>>

\* ----------------------------------------------------------------- Worker
\* A run timeout that never elapses.
RunTimedOutNever(timeout, start_time, t) == FALSE

\* start 71: timeout and (time.time() - start_time > timeout).
RunTimedOut(timeout, start_time, t) ==
  timeout # NoTime /\ t - start_time > timeout

\* start 69-76 and 93-94: the head of the loop: while self._running; the
\* run timeout; the shutdown flag.  Leaving the loop, start() returns.
WLoop(w) ==
  /\ wpc[w] = "loop"
  /\ IF ~wrun[w] \/ RunTimedOut(conf.timeout, wstart[w], now) \/ wshut[w]
       THEN /\ wpc' = [wpc EXCEPT ![w] = "stopped"]
            /\ wrun' = [wrun EXCEPT ![w] = FALSE]
       ELSE /\ wpc' = [wpc EXCEPT ![w] = "dequeue"]
            /\ UNCHANGED wrun
  /\ UNCHANGED <<qvars, now, hvars, ret, conf, call, files, wjob, wshut, werr,
                 wdead, wstart, rvars, epc>>

\* start 64-66 on a Worker that is not running.
WStart(w) ==
  /\ wpc[w] = "new"
  /\ wpc' = [wpc EXCEPT ![w] = "loop"]
  /\ wrun' = [wrun EXCEPT ![w] = TRUE]
  /\ wshut' = [wshut EXCEPT ![w] = FALSE]
  /\ wstart' = [wstart EXCEPT ![w] = now]
  /\ UNCHANGED <<qvars, now, hvars, ret, conf, call, files, wjob, werr, wdead,
                 rvars, epc>>

\* stop(), from another thread or from _signal_handler between two
\* bytecodes of the worker's own thread: wherever the worker stands.
WStop(w) ==
  /\ wpc[w] \notin {"stopped", "crashed"}
  /\ ~wshut[w]
  /\ wshut' = [wshut EXCEPT ![w] = TRUE]
  /\ wrun' = [wrun EXCEPT ![w] = FALSE]
  /\ UNCHANGED <<qvars, now, hvars, ret, conf, call, files, wpc, wjob, werr,
                 wdead, wstart, rvars, epc>>

\* start 81: what the worker keeps of the job dequeue returned: its id (the
\* payload is in created) and the attempts it was delivered with.
Delivery(job) == [id |-> job.id, attempts |-> job.attempts]

Bump(n) == IF n < HandledCap THEN n + 1 ELSE n

\* _process_job: self.handler(payload) returns or raises.
WHandler(w) ==
  /\ wpc[w] = "handler"
  /\ handled' = [handled EXCEPT ![wjob[w].id] = Bump(@)]
  /\ \/ /\ wpc' = [wpc EXCEPT ![w] = "ack_success"]
        /\ UNCHANGED werr
     \/ \E e \in HandlerErrors :
          /\ wpc' = [wpc EXCEPT ![w] = "ack_failure"]
          /\ werr' = [werr EXCEPT ![w] = e]
  /\ UNCHANGED <<qvars, now, created, ran, ret, conf, call, files, wjob, wrun,
                 wshut, wdead, wstart, rvars, epc>>

WAckSuccess(w) ==
  /\ wpc[w] = "ack_success"
  /\ SetStore(AckSuccessPipeline(Store, wjob[w].id))
  /\ wpc' = [wpc EXCEPT ![w] = "loop"]
  /\ wjob' = [wjob EXCEPT ![w] = NoJob]
  /\ UNCHANGED <<now, hvars, ret, conf, call, files, wrun, wshut, werr, wdead,
                 wstart, rvars, epc>>

WAckFailure(w) ==
  /\ wpc[w] = "ack_failure"
  /\ SetStore(AckFailureScript(Store, wjob[w].id, werr[w], now).s)
  /\ wpc' = [wpc EXCEPT ![w] = "loop"]
  /\ wjob' = [wjob EXCEPT ![w] = NoJob]
  /\ werr' = [werr EXCEPT ![w] = NoError]
  /\ UNCHANGED <<now, hvars, ret, conf, call, files, wrun, wshut, wdead,
                 wstart, rvars, epc>>

\* ------------------------------------------------ Worker: Queue.dequeue
\* dequeue 78: deadline = time.time() + timeout, with the timeout=1 of
\* Worker.start.  The call is entered while its deadline is on the clock.
WDequeueEnter(w) ==
  /\ wpc[w] = "dequeue"
  /\ now + DequeueTimeout <= conf.horizon
  /\ wdead' = [wdead EXCEPT ![w] = now + DequeueTimeout]
  /\ wpc' = [wpc EXCEPT ![w] = "poll"]
  /\ UNCHANGED <<qvars, now, hvars, ret, conf, call, files, wjob, wrun, wshut,
                 werr, wstart, rvars, epc>>

\* A loop test that never sees the deadline.
WithinDeadlineAlways(t, deadline) == TRUE

\* dequeue 80: while time.time() < deadline.
WithinDeadline(t, deadline) == t < deadline

\* dequeue 80-87: one turn of the loop: a single shot, then return the job
\* or sleep; past the deadline, return None.
WPoll(w) ==
  /\ wpc[w] = "poll"
  /\ IF WithinDeadline(now, wdead[w])
       THEN LET res == DequeueOnceScript(Store, now)
            IN /\ SetStore(res.s)
               /\ IF res.r # NoJob
                    THEN /\ wjob' = [wjob EXCEPT ![w] = Delivery(res.r)]
                         /\ wpc' = [wpc EXCEPT ![w] = "handler"]
                         /\ wdead' = [wdead EXCEPT ![w] = NoTime]
                         /\ ret' = Returned("dequeue", TRUE, 0)
                    ELSE UNCHANGED <<wjob, wpc, wdead, ret>>
       ELSE /\ wpc' = [wpc EXCEPT ![w] = "loop"]
            /\ wdead' = [wdead EXCEPT ![w] = NoTime]
            /\ ret' = Returned("dequeue", FALSE, 0)
            /\ UNCHANGED <<qvars, wjob>>
  /\ UNCHANGED <<now, hvars, conf, call, files, wrun, wshut, werr, wstart,
                 rvars, epc>>

\* ---------------------------------------- Worker: store errors and death
\* reaplex_queue dequeue 103-108, _dequeue_once 131-143: in a turn of the
\* polling loop the EVAL raises an error the handler takes for a store
\* without scripting or a lost connection, and the call goes on to its
\* plain commands.  A connection lost while the reply is read leaves the
\* script applied: the job it moved is in PROCESSING, held by no worker.
WDequeueEvalRaises(w) ==
  /\ wpc[w] = "poll"
  /\ WithinDeadline(now, wdead[w])
  /\ \/ SetStore(DequeueOnceScript(Store, now).s)
     \/ UNCHANGED qvars
  /\ wpc' = [wpc EXCEPT ![w] = "deq_pop"]
  /\ UNCHANGED <<now, hvars, ret, conf, call, files, wjob, wrun, wshut, werr,
                 wdead, wstart, rvars, epc>>

\* reaplex_queue _dequeue_once 144-146, dequeue 105-110: RPOP.  On an empty
\* PENDING the shot returns None and dequeue is back in its polling loop.
WDequeueFallbackPop(w) ==
  /\ wpc[w] = "deq_pop"
  /\ IF pending = <<>>
       THEN /\ wpc' = [wpc EXCEPT ![w] = "poll"]
            /\ UNCHANGED <<qvars, wjob>>
       ELSE /\ pending' = RPopped(pending)
            /\ wjob' = [wjob EXCEPT ![w] = pending[Len(pending)]]
            /\ wpc' = [wpc EXCEPT ![w] = "deq_put"]
            /\ UNCHANGED <<seen, processing, done, failed>>
  /\ UNCHANGED <<now, hvars, ret, conf, call, files, wrun, wshut, werr,
                 wdead, wstart, rvars, epc>>

\* reaplex_queue _dequeue_once 148-154: started_at = time.time(); HSET.
WDequeueFallbackPut(w) ==
  /\ wpc[w] = "deq_put"
  /\ processing' = HSet(processing, wjob[w].id,
                        [wjob[w] EXCEPT !.started_at = now])
  /\ wjob' = [wjob EXCEPT ![w] = Delivery(wjob[w])]
  /\ wpc' = [wpc EXCEPT ![w] = "handler"]
  /\ wdead' = [wdead EXCEPT ![w] = NoTime]
  /\ ret' = Returned("dequeue", TRUE, 0)
  /\ UNCHANGED <<seen, pending, done, failed, now, hvars, conf, call, files,
                 wrun, wshut, werr, wstart, rvars, epc>>

\* The worker's process dies where it stands; what it held in memory is
\* gone.
WCrash(w) ==
  /\ wpc[w] \notin {"new", "stopped", "crashed"}
  /\ wpc' = [wpc EXCEPT ![w] = "crashed"]
  /\ wrun' = [wrun EXCEPT ![w] = FALSE]
  /\ wjob' = [wjob EXCEPT ![w] = NoJob]
  /\ werr' = [werr EXCEPT ![w] = NoError]
  /\ wdead' = [wdead EXCEPT ![w] = NoTime]
  /\ UNCHANGED <<qvars, now, hvars, ret, conf, call, files, wshut, wstart,
                 rvars, epc>>

\* The process of a worker dies between its dequeue and its ack.
WCrashHolding(w) ==
  /\ wpc[w] \in {"handler", "ack_success", "ack_failure"}
  /\ WCrash(w)

\* _process_job 124-128: pipe.execute() of ack_success raises, with the
\* transaction applied or not; the except clause takes the error.
WAckSuccessRaises(w) ==
  /\ wpc[w] = "ack_success"
  /\ \/ SetStore(AckSuccessPipeline(Store, wjob[w].id))
     \/ UNCHANGED qvars
  /\ \E e \in StoreErrors : werr' = [werr EXCEPT ![w] = e]
  /\ wpc' = [wpc EXCEPT ![w] = "ack_failure"]
  /\ UNCHANGED <<now, hvars, ret, conf, call, files, wjob, wrun, wshut, wdead,
                 wstart, rvars, epc>>

\* start 88-91: except Exception: the error is logged and the loop sleeps.
LoopExcept(e) == "backoff"

\* start 80, 88-91: a shot of queue.dequeue raises and the except clause
\* of start() takes the error.  The command that raises has been applied
\* or not: an EVAL whose reply is lost leaves the job in PROCESSING, held
\* by no worker.  On the plain-command path of reaplex_queue the RPOP
\* (144) or the HSET (152) raises, and the job an RPOP has returned is
\* dropped with the call.
WDequeueRaises(w) ==
  /\ \/ /\ wpc[w] = "poll"
        /\ WithinDeadline(now, wdead[w])
        /\ \/ SetStore(DequeueOnceScript(Store, now).s)
           \/ UNCHANGED qvars
     \/ /\ wpc[w] = "deq_pop"
        /\ \/ pending # <<>> /\ pending' = RPopped(pending)
           \/ UNCHANGED pending
        /\ UNCHANGED <<seen, processing, done, failed>>
     \/ /\ wpc[w] = "deq_put"
        /\ \/ processing' = HSet(processing, wjob[w].id,
                                 [wjob[w] EXCEPT !.started_at = now])
           \/ UNCHANGED processing
        /\ UNCHANGED <<seen, pending, done, failed>>
  /\ \E e \in StoreErrors :
       /\ werr' = [werr EXCEPT ![w] = e]
       /\ wpc' = [wpc EXCEPT ![w] = LoopExcept(e)]
  /\ wjob' = [wjob EXCEPT ![w] = NoJob]
  /\ wdead' = [wdead EXCEPT ![w] = now + BackoffSeconds]
  /\ UNCHANGED <<now, hvars, ret, conf, call, files, wrun, wshut, wstart,
                 rvars, epc>>

\* _process_job 129, start 88-91: queue.ack_failure raises; the error
\* leaves _process_job and start() takes it.  The command that raises has
\* been applied or not: the EVAL, or on the plain-command path of
\* reaplex_queue the HGET (209), the HSET of FAILED (215) or the HDEL of
\* PROCESSING (216).
WAckFailureRaises(w) ==
  /\ \/ /\ wpc[w] = "ack_failure"
        /\ \/ SetStore(AckFailureScript(Store, wjob[w].id, werr[w], now).s)
           \/ UNCHANGED qvars
     \/ /\ wpc[w] = "ackf_get"
        /\ UNCHANGED qvars
     \/ /\ wpc[w] = "ackf_set"
        /\ \/ failed' = HSet(failed, wjob[w].id, wjob[w])
           \/ UNCHANGED failed
        /\ UNCHANGED <<seen, pending, processing, done>>
     \/ /\ wpc[w] = "ackf_del"
        /\ \/ processing' = HDel(processing, wjob[w].id)
           \/ UNCHANGED processing
        /\ UNCHANGED <<seen, pending, done, failed>>
  /\ \E e \in StoreErrors :
       /\ werr' = [werr EXCEPT ![w] = e]
       /\ wpc' = [wpc EXCEPT ![w] = LoopExcept(e)]
  /\ wjob' = [wjob EXCEPT ![w] = NoJob]
  /\ wdead' = [wdead EXCEPT ![w] = now + BackoffSeconds]
  /\ UNCHANGED <<now, hvars, ret, conf, call, files, wrun, wshut, wstart,
                 rvars, epc>>

\* start 91: time.sleep(1) is over; back to the head of the loop.
WBackoff(w) ==
  /\ wpc[w] = "backoff"
  /\ now >= wdead[w]
  /\ wpc' = [wpc EXCEPT ![w] = "loop"]
  /\ werr' = [werr EXCEPT ![w] = NoError]
  /\ wdead' = [wdead EXCEPT ![w] = NoTime]
  /\ UNCHANGED <<qvars, now, hvars, ret, conf, call, files, wjob, wrun, wshut,
                 wstart, rvars, epc>>

\* reaplex_queue ack_failure 196-208: the EVAL raises such an error and
\* the call goes on to its plain commands.  A connection lost while the
\* reply is read leaves the script applied.
WAckFailureEvalRaises(w) ==
  /\ wpc[w] = "ack_failure"
  /\ \/ SetStore(AckFailureScript(Store, wjob[w].id, werr[w], now).s)
     \/ UNCHANGED qvars
  /\ wpc' = [wpc EXCEPT ![w] = "ackf_get"]
  /\ UNCHANGED <<now, hvars, ret, conf, call, files, wjob, wrun, wshut, werr,
                 wdead, wstart, rvars, epc>>

\* reaplex_queue ack_failure 209-213: HGET; without a reply the call
\* returns, else the job takes error and failed_at = time.time().
WAckFailureFallbackGet(w) ==
  /\ wpc[w] = "ackf_get"
  /\ LET raw == HGet(processing, wjob[w].id)
     IN IF raw = NoJob
          THEN /\ wpc' = [wpc EXCEPT ![w] = "loop"]
               /\ wjob' = [wjob EXCEPT ![w] = NoJob]
               /\ werr' = [werr EXCEPT ![w] = NoError]
          ELSE /\ wjob' = [wjob EXCEPT ![w] =
                             [raw EXCEPT !.error = werr[w],
                                         !.failed_at = now]]
               /\ wpc' = [wpc EXCEPT ![w] = "ackf_set"]
               /\ UNCHANGED werr
  /\ UNCHANGED <<qvars, now, hvars, ret, conf, call, files, wrun, wshut,
                 wdead, wstart, rvars, epc>>

\* reaplex_queue ack_failure 215: HSET FAILED.
WAckFailureFallbackSet(w) ==
  /\ wpc[w] = "ackf_set"
  /\ failed' = HSet(failed, wjob[w].id, wjob[w])
  /\ wpc' = [wpc EXCEPT ![w] = "ackf_del"]
  /\ UNCHANGED <<seen, pending, processing, done, now, hvars, ret, conf, call,
                 files, wjob, wrun, wshut, werr, wdead, wstart, rvars, epc>>

\* reaplex_queue ack_failure 216: HDEL PROCESSING.
WAckFailureFallbackDel(w) ==
  /\ wpc[w] = "ackf_del"
  /\ processing' = HDel(processing, wjob[w].id)
  /\ wpc' = [wpc EXCEPT ![w] = "loop"]
  /\ wjob' = [wjob EXCEPT ![w] = NoJob]
  /\ werr' = [werr EXCEPT ![w] = NoError]
  /\ UNCHANGED <<seen, pending, done, failed, now, hvars, ret, conf, call,
                 files, wrun, wshut, wdead, wstart, rvars, epc>>

\* ----------------------------------------------------------------- reaper
\* requeue_stale(timeout): HSCAN with count=100 returns a hash this small
\* in one page; the keys are then visited in the order of the reply.
RScan(timeout) ==
  /\ rpc = "idle"
  /\ rpc' = "iter"
  /\ rkeys' = DOMAIN processing
  /\ rmoved' = 0
  /\ rtimeout' = timeout
  /\ UNCHANGED <<qvars, now, hvars, ret, conf, call, files, wvars, rjob, epc>>

\* _requeue_one, scripted: an error of the script leaves requeue_stale.
ROne(k) ==
  /\ rpc = "iter"
  /\ k \in rkeys
  /\ LET res == RequeueOneScript(Store, k, now, rtimeout, MAX_ATTEMPTS)
     IN IF res.raised
          THEN /\ rpc' = "idle"
               /\ rkeys' = {}
               /\ rmoved' = 0
               /\ rtimeout' = 0
               /\ ret' = Returned("requeue_stale", FALSE, 0)
               /\ UNCHANGED qvars
          ELSE /\ SetStore(res.s)
               /\ rkeys' = rkeys \ {k}
               /\ rmoved' = rmoved + res.r
               /\ UNCHANGED <<rpc, rtimeout, ret>>
  /\ UNCHANGED <<now, hvars, conf, call, files, wvars, rjob, epc>>

RReturn ==
  /\ rpc = "iter"
  /\ rkeys = {}
  /\ rpc' = "idle"
  /\ rmoved' = 0
  /\ rtimeout' = 0
  /\ ret' = Returned("requeue_stale", TRUE, rmoved)
  /\ UNCHANGED <<qvars, now, hvars, conf, call, files, wvars, rkeys, rjob,
                 epc>>

\* ------------------------------------------- reaplex_queue: the fallbacks
\* reaplex_queue/queue.py wraps each EVAL in try/except: when the error
\* names "eval" or "unknown command" (a store without scripting), or is a
\* ConnectionError, the operation is redone with plain commands, each a
\* step of its own.  A script's own runtime error is re-raised.

\* enqueue 73-76: pipeline of SADD and LPUSH; results[0] is SADD's reply.
EnqueuePipeline(s, h, job) ==
  [s |-> [s EXCEPT !.seen = @ \cup {h}, !.pending = LPush(@, job)],
   r |-> IF h \in s.seen THEN 0 ELSE 1]

\* enqueue 45, 58-72: the job is minted and the EVAL raises an error the
\* handler takes for a store without scripting or a lost connection; the
\* call goes on to its pipeline with the job it holds.  A connection lost
\* while the reply is read leaves the script applied.
EnqueueEvalRaises(c, p) ==
  /\ epc[c].pc = "idle"
  /\ Len(created) < MaxJobs
  /\ LET job == Job(Len(created) + 1, p)
     IN /\ \/ SetStore(EnqueueScript(Store, hash_payload(p), job).s)
           \/ UNCHANGED qvars
        /\ epc' = [epc EXCEPT ![c] = [pc |-> "pipe", job |-> job]]
  /\ created' = Append(created, [payload |-> p, fresh |-> FALSE])
  /\ handled' = Append(handled, 0)
  /\ ran' = Append(ran, {})
  /\ UNCHANGED <<now, ret, conf, call, files, wvars, rvars>>

\* enqueue 73-80: the pipeline of SADD and LPUSH, with the job of line 45;
\* on SADD's reply 1 the call returns True.  After an EVAL that was
\* applied the pipeline finds the fingerprint in SEEN and pushes the same
\* job a second time.
EnqueueFallback(c) ==
  /\ epc[c].pc = "pipe"
  /\ LET job == epc[c].job
         res == EnqueuePipeline(Store, hash_payload(job.payload), job)
     IN /\ SetStore(res.s)
        /\ created' = [created EXCEPT ![job.id].fresh = (res.r = 1)]
        /\ IF res.r = 1
             THEN /\ ret' = Returned("enqueue", TRUE, 0)
                  /\ epc' = [epc EXCEPT ![c] = NoEnqueue]
             ELSE /\ epc' = [epc EXCEPT ![c].pc = "lpop"]
                  /\ UNCHANGED ret
  /\ UNCHANGED <<now, handled, ran, conf, call, files, wvars, rvars>>

\* enqueue 82-84: the duplicate path pops the head of PENDING.
EnqueueFallbackLPop(c) ==
  /\ epc[c].pc = "lpop"
  /\ pending' = LPopped(pending)
  /\ epc' = [epc EXCEPT ![c] = NoEnqueue]
  /\ ret' = Returned("enqueue", FALSE, 0)
  /\ UNCHANGED <<seen, processing, done, failed, now, hvars, conf, call,
                 files, wvars, rvars>>

\* _requeue_one 300-314: what job_data becomes, from the HGET reply and
\* current_time.
\* A retry test that is off by one.
RetriesLeftInclusive(job) == job.attempts <= MAX_ATTEMPTS

\* _requeue_one 310: the job goes back to PENDING while attempts remain.
RetriesLeft(job) == job.attempts < MAX_ATTEMPTS

RequeueOneFallbackData(job, current_time) ==
  LET moved == [job EXCEPT !.attempts = @ + 1, !.started_at = NoTime]
  IN IF RetriesLeft(moved)
       THEN moved
       ELSE [moved EXCEPT !.error = TimeoutError, !.failed_at = current_time]

\* _requeue_one 304: a job is left alone while its elapsed time is within
\* the timeout.
IsFresh(raw, current_time, timeout) ==
  (current_time - raw.started_at) <= timeout

\* _requeue_one 296-318 run with no other client in between: HGET, the
\* staleness test, LPUSH or HSET, HDEL.
RequeueOneFallback(s, id, t, timeout) ==
  IF id \notin DOMAIN s.processing \/ IsFresh(s.processing[id], t, timeout)
    THEN [s |-> s, r |-> 0]
    ELSE LET data == RequeueOneFallbackData(s.processing[id], t)
         IN [s |-> IF RetriesLeft(data)
                     THEN [s EXCEPT !.pending = LPush(@, data),
                                    !.processing = HDel(@, id)]
                     ELSE [s EXCEPT !.failed = HSet(@, data.id, data),
                                    !.processing = HDel(@, id)],
             r |-> 1]

\* requeue_stale 172-176: HSCAN replies with the fields of the hash in an
\* order of the store's choosing.
HScanReplies(h) ==
  {q \in [1..Cardinality(DOMAIN h) -> DOMAIN h] :
     \A a, b \in DOMAIN q : a # b => q[a] # q[b]}

\* _requeue_one 296-305: HGET and the staleness test.
RFallbackGet(k) ==
  /\ rpc = "iter"
  /\ k \in rkeys
  /\ LET raw == HGet(processing, k)
     IN IF raw = NoJob \/ IsFresh(raw, now, rtimeout)
          THEN /\ rkeys' = rkeys \ {k}
               /\ UNCHANGED <<rpc, rjob>>
          ELSE /\ rjob' = RequeueOneFallbackData(raw, now)
               /\ rpc' = "put"
               /\ UNCHANGED rkeys
  /\ UNCHANGED <<qvars, now, hvars, ret, conf, call, files, wvars, rmoved,
                 rtimeout, epc>>

\* _requeue_one 310-315: LPUSH to PENDING, or HSET into FAILED.
RFallbackPut ==
  /\ rpc = "put"
  /\ IF RetriesLeft(rjob)
       THEN /\ pending' = LPush(pending, rjob)
            /\ UNCHANGED failed
       ELSE /\ failed' = HSet(failed, rjob.id, rjob)
            /\ UNCHANGED pending
  /\ rpc' = "del"
  /\ UNCHANGED <<seen, processing, done, now, hvars, ret, conf, call, files,
                 wvars, rkeys, rmoved, rtimeout, rjob, epc>>

\* _requeue_one 317-318: HDEL from PROCESSING; the job counts as moved.
RFallbackDel ==
  /\ rpc = "del"
  /\ processing' = HDel(processing, rjob.id)
  /\ rkeys' = rkeys \ {rjob.id}
  /\ rmoved' = rmoved + 1
  /\ rjob' = NoJob
  /\ rpc' = "iter"
  /\ UNCHANGED <<seen, pending, done, failed, now, hvars, ret, conf, call,
                 files, wvars, rtimeout, epc>>

\* ---------------------------------------------------------------- strings
\* A Python str is the sequence of its characters.
UpperCase == <<"A", "B", "C", "D", "E", "F", "G", "H", "I", "J", "K", "L",
  "M", "N", "O", "P", "Q", "R", "S", "T", "U", "V", "W", "X", "Y", "Z">>
LowerCase == <<"a", "b", "c", "d", "e", "f", "g", "h", "i", "j", "k", "l",
  "m", "n", "o", "p", "q", "r", "s", "t", "u", "v", "w", "x", "y", "z">>

\* str.lower() on ASCII text.
LowerChar(c) ==
  IF \E i \in DOMAIN UpperCase : UpperCase[i] = c
    THEN LowerCase[CHOOSE i \in DOMAIN UpperCase : UpperCase[i] = c]
    ELSE c

StrLower(s) == [i \in 1..Len(s) |-> LowerChar(s[i])]

\* str.endswith(suffix) and the operator "sub in s".
EndsWith(s, suffix) ==
  /\ Len(suffix) <= Len(s)
  /\ SubSeq(s, Len(s) - Len(suffix) + 1, Len(s)) = suffix

Contains(s, sub) ==
  \E i \in 0..(Len(s) - Len(sub)) : SubSeq(s, i + 1, i + Len(sub)) = sub

\* The values of a payload dict: a str, True or False, and the None that
\* dict.get gives for a missing key.
JStr(chars) == [t |-> "str", v |-> chars]
JTrue == [t |-> "bool", v |-> <<"true">>]
JFalse == [t |-> "bool", v |-> <<"false">>]
JNone == [t |-> "none", v |-> <<>>]

\* bool(x), as "not x" and "if x" take it; "x is True".
Truthy(x) ==
  CASE x.t = "str" -> x.v # <<>>
    [] x.t = "bool" -> x.v = <<"true">>
    [] OTHER -> FALSE

IsTrue(x) == x.t = "bool" /\ x.v = <<"true">>

\* dict.get(key, default) on a payload, a sequence of <<key, value>>.
Get(payload, key, default) ==
  IF \E i \in DOMAIN payload : payload[i][1] = key
    THEN payload[CHOOSE i \in DOMAIN payload : payload[i][1] = key][2]
    ELSE default

\* ------------------------------------------------------------- classifier
\* classify 36 and 42-48.
skip_extensions ==
  << <<".", "p", "d", "f">>,
     <<".", "j", "p", "g">>,
     <<".", "j", "p", "e", "g">>,
     <<".", "p", "n", "g">>,
     <<".", "g", "i", "f">>,
     <<".", "z", "i", "p">>,
     <<".", "e", "x", "e">> >>

browser_domains ==
  << <<"t", "w", "i", "t", "t", "e", "r", ".", "c", "o", "m">>,
     <<"i", "n", "s", "t", "a", "g", "r", "a", "m", ".", "c", "o", "m">>,
     <<"f", "a", "c", "e", "b", "o", "o", "k", ".", "c", "o", "m">>,
     <<"t", "i", "k", "t", "o", "k", ".", "c", "o", "m">>,
     <<"y", "o", "u", "t", "u", "b", "e", ".", "c", "o", "m">> >>

HasSkipExtension(url_lower) ==
  \E i \in DOMAIN skip_extensions : EndsWith(url_lower, skip_extensions[i])

HasBrowserDomain(url_lower) ==
  \E i \in DOMAIN browser_domains : Contains(url_lower, browser_domains[i])

\* A classifier that looks at the domains before the extensions.
classify_domains_first(payload) ==
  LET url == Get(payload, "url", JStr(<<>>))
  IN IF ~Truthy(url) THEN "skip"
     ELSE IF IsTrue(Get(payload, "render_js", JNone)) THEN "browser"
     ELSE IF HasBrowserDomain(StrLower(url.v)) THEN "browser"
     ELSE IF HasSkipExtension(StrLower(url.v)) THEN "skip"
     ELSE "html"

\* classify 23-56.
classify(payload) ==
  LET url == Get(payload, "url", JStr(<<>>))
  IN IF ~Truthy(url) THEN "skip"
     ELSE LET url_lower == StrLower(url.v)
          IN IF IsTrue(Get(payload, "render_js", JNone)) THEN "browser"
             ELSE IF HasSkipExtension(url_lower) THEN "skip"
             ELSE IF HasBrowserDomain(url_lower) THEN "browser"
             ELSE "html"

\* The payloads classify is given: a url made of a host and a tail, an
\* empty url or none, and a render_js that is true, false, the str "true"
\* or absent.
Urls ==
  {h \o t :
     h \in { <<"a", ".", "t", "e", "s", "t">>,
             <<"t", "w", "i", "t", "t", "e", "r", ".", "c", "o", "m">>,
             <<"I", "n", "s", "t", "a", "g", "r", "a", "m", ".", "c", "o", "m">>,
             <<"m", ".", "f", "a", "c", "e", "b", "o", "o", "k", ".", "c", "o",
               "m">>,
             <<"t", "i", "k", "t", "o", "k", ".", "c", "o", "m">>,
             <<"Y", "O", "U", "T", "U", "B", "E", ".", "C", "O", "M">>,
             <<"t", "w", "i", "t", "t", "e", "r", ".", "c", "o">> },
     t \in { <<>>,
             <<"/">>,
             <<"/", "f", ".", "p", "d", "f">>,
             <<"/", "f", ".", "j", "p", "g">>,
             <<"/", "f", ".", "j", "p", "e", "g">>,
             <<"/", "f", ".", "p", "n", "g">>,
             <<"/", "f", ".", "g", "i", "f">>,
             <<"/", "f", ".", "z", "i", "p">>,
             <<"/", "f", ".", "E", "X", "E">>,
             <<"/", "f", ".", "p", "d", "f", "s">>,
             <<"/", "f", ".", "p", "d", "f", "?", "x">> }}
    \cup {<<>>}
UrlFields == {<< <<"url", JStr(u)>> >> : u \in Urls} \cup {<<>>}
RenderJsFields ==
  {<< <<"render_js", x>> >> :
     x \in {JTrue, JFalse, JStr(<<"t", "r", "u", "e">>)}} \cup {<<>>}
ClassifyInputs == {r \o u : r \in RenderJsFields, u \in UrlFields}

\* ---------------------------------------------------------------- handler
\* handler.py 11-14: the table of executors, by its keys.
EXECUTORS == {"html", "browser"}
NoExecutor == "<None>"

\* What httpx gives HtmlExecutor.run: a response, or an error it raises.
NetOutcomes == {"ok", "HTTPError"}

\* HtmlExecutor.run 26-58 and BrowserExecutor.run 32-44: the error raised,
\* or NoError when run returns.
HtmlExecutorRun(payload, net) ==
  IF ~Truthy(Get(payload, "url", JNone))
    THEN "Job payload missing 'url' field"
    ELSE IF net = "ok" THEN NoError ELSE net

BrowserExecutorRun(payload) ==
  IF ~Truthy(Get(payload, "url", JNone))
    THEN "BrowserExecutor requires 'url' in payload"
    ELSE NoError

ExecutorRun(name, payload, net) ==
  IF name = "html" THEN HtmlExecutorRun(payload, net)
                   ELSE BrowserExecutorRun(payload)

\* A handler that runs the html executor whatever the classifier says.
job_handler_eager(payload, net) ==
  [executor |-> "html", error |-> HtmlExecutorRun(payload, net)]

\* job_handler 30-48: the executor it has run, if any, and the error it
\* raises, if any.
job_handler(payload, net) ==
  LET job_type == classify(payload)
  IN IF job_type = "skip"
       THEN [executor |-> NoExecutor, error |-> NoError]
       ELSE IF job_type \notin EXECUTORS
         THEN [executor |-> NoExecutor, error |-> NoError]
         ELSE [executor |-> job_type,
               error |-> ExecutorRun(job_type, payload, net)]

\* _process_job 111-126 with handler = job_handler, on the payload the job
\* was minted with.
WJobHandler(w) ==
  /\ wpc[w] = "handler"
  /\ \E net \in NetOutcomes :
       LET i == wjob[w].id
           out == job_handler(created[i].payload, net)
       IN /\ handled' = [handled EXCEPT ![i] = Bump(@)]
          /\ ran' = [ran EXCEPT ![i] = IF out.executor = NoExecutor
                                         THEN @ ELSE @ \cup {out.executor}]
          /\ IF out.error = NoError
               THEN /\ wpc' = [wpc EXCEPT ![w] = "ack_success"]
                    /\ UNCHANGED werr
               ELSE /\ wpc' = [wpc EXCEPT ![w] = "ack_failure"]
                    /\ werr' = [werr EXCEPT ![w] = out.error]
  /\ UNCHANGED <<qvars, now, created, ret, conf, call, files, wjob, wrun,
                 wshut, wdead, wstart, rvars, epc>>

\* Payloads for the handler: no url (with and without render_js), a file
\* to skip, a static page and a browser domain.
PayloadNoUrl == <<>>
PayloadOnlyRenderJs == << <<"render_js", JTrue>> >>
PayloadFile == << <<"url", JStr(<<"a", ".", "t", "e", "s", "t", "/", "f", ".", "p", "d", "f">>)>> >>
PayloadPage == << <<"url", JStr(<<"a", ".", "t", "e", "s", "t">>)>> >>
PayloadSocial == << <<"url", JStr(<<"t", "w", "i", "t", "t", "e", "r", ".", "c", "o", "m">>)>> >>
HandlerPayloads ==
  {PayloadNoUrl, PayloadOnlyRenderJs, PayloadFile, PayloadPage, PayloadSocial}

\* ----------------------------------------------------------------- router
\* _looks_js_heavy 63-69 and 82-84.
js_indicators ==
  << <<"n","e","e","d"," ","t","o"," ","e","n","a","b","l","e"," ","j","a","v","a","s","c","r","i","p","t">>,
     <<"j","a","v","a","s","c","r","i","p","t"," ","i","s"," ","r","e","q","u","i","r","e","d">>,
     <<"p","l","e","a","s","e"," ","e","n","a","b","l","e"," ","j","a","v","a","s","c","r","i","p","t">>,
     <<"b","r","o","w","s","e","r"," ","d","o","e","s","n","'","t"," ","s","u","p","p","o","r","t"," ","j","a","v","a","s","c","r","i","p","t">>,
     <<"y","o","u"," ","n","e","e","d"," ","t","o"," ","e","n","a","b","l","e"," ","j","a","v","a","s","c","r","i","p","t"," ","t","o"," ","r","u","n"," ","t","h","i","s"," ","a","p","p">> >>

root_hooks ==
  << <<"i", "d", "=", "\"", "r", "o", "o", "t", "\"">>,
     <<"i", "d", "=", "\"", "a", "p", "p", "\"">>,
     <<"i", "d", "=", "\"", "_", "_", "n", "e", "x", "t", "\"">> >>

\* _looks_js_heavy 54-89.
_looks_js_heavy(html) ==
  IF html = <<>> THEN TRUE
  ELSE LET lower_html == StrLower(html)
       IN IF \E i \in DOMAIN js_indicators :
               Contains(lower_html, js_indicators[i])
            THEN TRUE
            ELSE /\ Len(html) < SmallPage
                 /\ \E i \in DOMAIN root_hooks :
                      Contains(lower_html, root_hooks[i])

\* The bodies the HTTP fetcher may return: static pages, shells with a root
\* hook, a notice that asks for JavaScript, an empty body, and the same
\* padded to SmallPage - 1, SmallPage and beyond.
BodyPage ==
  <<"<", "h", "t", "m", "l", ">", "<", "b", "o", "d", "y", ">", "<", "p", ">",
    "H", "e", "l", "l", "o", "<", "/", "p", ">", "<", "/", "b", "o", "d", "y",
    ">", "<", "/", "h", "t", "m", "l", ">">>
BodyRoot ==
  <<"<", "h", "t", "m", "l", ">", "<", "b", "o", "d", "y", ">", "<", "d", "i",
    "v", " ", "i", "d", "=", "\"", "r", "o", "o", "t", "\"", ">", "<", "/",
    "d", "i", "v", ">", "<", "/", "b", "o", "d", "y", ">", "<", "/", "h", "t",
    "m", "l", ">">>
BodyApp ==
  <<"<", "D", "I", "V", " ", "I", "D", "=", "\"", "A", "P", "P", "\"", ">",
    "<", "/", "D", "I", "V", ">">>
BodyNext ==
  <<"<", "d", "i", "v", " ", "i", "d", "=", "\"", "_", "_", "n", "e", "x",
    "t", "\"", ">", "<", "/", "d", "i", "v", ">">>
BodyNotice ==
  <<"<", "p", ">", "P", "l", "e", "a", "s", "e", " ", "e", "n", "a", "b", "l",
    "e", " ", "J", "a", "v", "a", "S", "c", "r", "i", "p", "t", "<", "/", "p",
    ">">>
BodyRendered ==
  <<"<", "h", "t", "m", "l", ">", "<", "b", "o", "d", "y", ">", "<", "d", "i",
    "v", " ", "i", "d", "=", "\"", "r", "o", "o", "t", "\"", ">", "<", "p",
    ">", "H", "i", "<", "/", "p", ">", "<", "/", "d", "i", "v", ">", "<", "/",
    "b", "o", "d", "y", ">", "<", "/", "h", "t", "m", "l", ">">>

PadTo(html, n) == html \o [i \in 1..(n - Len(html)) |-> " "]
HttpBodies ==
  { <<>>, BodyPage, BodyRoot, BodyApp, BodyNext, BodyNotice,
    PadTo(BodyRoot, SmallPage - 1), PadTo(BodyRoot, SmallPage),
    PadTo(BodyNotice, SmallPage + 1), PadTo(BodyPage, SmallPage) }
HttpStatuses == {StatusOk, 403}
FetchErrors == {"ConnectError"}
BrowserErrors == {"navigation timeout"}
RouteUrls == {<<"a", ".", "t", "e", "s", "t">>, <<"b", ".", "t", "e", "s", "t">>}

\* base.py 6-17: ScrapeResult, without its two clock readings.
ScrapeResult(url, html, status, scraper_type) ==
  [url |-> url, html |-> html, status |-> status,
   scraper_type |-> scraper_type]
NoScrape == [scraper_type |-> "<None>"]

\* base.py 8-17: the fields of the dataclass, none with a default.
ScrapeResultFields ==
  {"url", "html", "status", "scraper_type", "response_time", "timestamp"}

\* html_scraper.py 48-54: the keywords fetch passes to ScrapeResult.
HtmlResultFields == {"url", "html", "status", "scraper_type", "response_time"}

\* What client.get answered, before fetch builds its result.
NoResponse == [status_code |-> "<None>"]

\* What html_scraper.fetch and js_scraper.fetch may return for a url
\* (html_scraper.py 48-54, js_scraper.py 61-68).  A ScrapeResult built
\* without one of its fields raises TypeError, so a fetch that leaves one
\* out returns nothing.
HttpResults(url) ==
  IF ScrapeResultFields \subseteq HtmlResultFields
    THEN {ScrapeResult(url, b, st, "html") :
            b \in HttpBodies, st \in HttpStatuses}
    ELSE {}
BrowserResults(url) == {ScrapeResult(url, BodyRendered, StatusOk, "js")}

\* A call of route: its arguments, where it stands, how often each fetcher
\* was invoked, what each returned last, and the result or the error that
\* leaves the call.
RouteCall(url, force_js) ==
  [op |-> "route", url |-> url, force_js |-> force_js, pc |-> "route",
   http |-> 0, js |-> 0, got |-> NoResponse, fetched |-> NoScrape,
   rendered |-> NoScrape,
   result |-> NoScrape, error |-> NoError]

\* A router that tries the HTTP fetcher whatever force_js says.
RouteFirstHttp(force_js) == "http"

\* route 28-34: the first fetcher.
RouteFirst(force_js) == IF force_js THEN "js_forced" ELSE "http"

\* route 37-44: after the HTTP result.
RouteAfterHtml(result) ==
  IF _looks_js_heavy(result.html) THEN "js_shell" ELSE "returned"

\* route 30, 41 and 52: where an exception of js_scraper.fetch goes.  The
\* call of line 41 stands inside the try block, so the except clause of
\* line 46 takes its exception; those of lines 30 and 52 leave route.
RouteAfterBrowserError(pc) == IF pc = "js_shell" THEN "js_except" ELSE "raised"

RouteBegin ==
  /\ call.pc = "route"
  /\ call' = [call EXCEPT !.pc = RouteFirst(call.force_js)]
  /\ UNCHANGED <<qvars, now, hvars, ret, conf, files, wvars, rvars, epc>>

\* route 34-46 over html_scraper.fetch 25-58: client.get answers or
\* raises; from an answer fetch builds its result, and returns it or raises
\* the TypeError of the constructor again; route takes every exception to
\* its except clause.
RouteHttp ==
  /\ call.pc = "http"
  /\ \/ \E b \in HttpBodies, st \in HttpStatuses :
          LET r == ScrapeResult(call.url, b, st, "html")
              response == [text |-> b, status_code |-> st]
          IN call' =
               IF r \in HttpResults(call.url)
                 THEN [call EXCEPT !.http = @ + 1, !.got = response,
                                   !.fetched = r,
                                   !.pc = RouteAfterHtml(r),
                                   !.result = IF RouteAfterHtml(r) = "returned"
                                                THEN r ELSE NoScrape]
                 ELSE [call EXCEPT !.http = @ + 1, !.got = response,
                                   !.pc = "js_except"]
     \/ \E e \in FetchErrors :
          call' = [call EXCEPT !.http = @ + 1, !.pc = "js_except"]
  /\ UNCHANGED <<qvars, now, hvars, ret, conf, files, wvars, rvars, epc>>

\* route 30, 41, 52: where route calls js_scraper.fetch: with force_js,
\* after an HTTP result that looks like a JS shell, and in the fallback
\* after the except clause.
BrowserCallSites == {"js_forced", "js_shell", "js_except"}

\* route 30, 41, 52: js_scraper.fetch returns a result or raises.
RouteJs ==
  /\ call.pc \in BrowserCallSites
  /\ \/ \E r \in BrowserResults(call.url) :
          call' = [call EXCEPT !.js = @ + 1, !.rendered = r,
                               !.pc = "returned", !.result = r]
     \/ \E e \in BrowserErrors :
          call' = [call EXCEPT !.js = @ + 1,
                               !.pc = RouteAfterBrowserError(call.pc),
                               !.error = IF RouteAfterBrowserError(call.pc)
                                             = "raised"
                                           THEN e ELSE NoError]
  /\ UNCHANGED <<qvars, now, hvars, ret, conf, files, wvars, rvars, epc>>

\* -------------------------------------------------------- ScraperExecutor
\* The payloads run is given: with job_id, with id, with neither, with
\* force_js, and without url.
UrlField == <<"url", JStr(<<"a", ".", "t", "e", "s", "t">>)>>
RunPayloads ==
  { << UrlField >>,
    << UrlField, <<"job_id", JStr(<<"j", "1">>)>> >>,
    << UrlField, <<"job_id", JStr(<<"j", "1">>)>>, <<"force_js", JTrue>> >>,
    << UrlField, <<"id", JStr(<<"j", "2">>)>> >>,
    << <<"job_id", JStr(<<"j", "1">>)>> >> }

WriteErrors == {"OSError"}
MissingUrl == "Payload missing required field: 'url'"

\* run 54: str(uuid.uuid4()), a name no earlier run has used.
RunDigits == <<"1", "2", "3", "4", "5", "6", "7", "8", "9">>
Uuid4(n) == <<"u", RunDigits[n]>>

\* run 51-54: payload.get("job_id") or payload.get("id"), else a uuid.
JobIdOf(payload, n) ==
  IF Truthy(Get(payload, "job_id", JNone)) THEN Get(payload, "job_id", JNone).v
  ELSE IF Truthy(Get(payload, "id", JNone)) THEN Get(payload, "id", JNone).v
  ELSE Uuid4(n)

\* A call of run, the n-th: the call of route it makes, the payload, the
\* job id, the files as the call found them, and how many it has written.
RunCall(payload, n) ==
  [RouteCall(Get(payload, "url", JNone).v,
             Truthy(Get(payload, "force_js", JNone)))
     EXCEPT !.op = "run", !.pc = "run"]
  @@ [payload |-> payload, runs |-> n, job_id |-> JobIdOf(payload, n),
      before |-> files, wrote |-> 0]

\* An executor that writes the structured file first.
RunWritesStructuredFirst == <<"structured", "raw">>

\* run 88-106: the files run writes, in the order it writes them.
RunWrites == <<"raw", "structured">>

WithFile(fs, kind, id) == [fs EXCEPT ![kind] = @ \cup {id}]

\* run 46-48 and 71-73: the url is required; then the router is called.
RunBegin ==
  /\ call.op = "run" /\ call.pc = "run"
  /\ IF ~Truthy(Get(call.payload, "url", JNone))
       THEN call' = [call EXCEPT !.pc = "run_raised", !.error = MissingUrl]
       ELSE call' = [call EXCEPT !.pc = "route"]
  /\ UNCHANGED <<qvars, now, hvars, ret, conf, files, wvars, rvars, epc>>

\* run 110-112: route has raised; the error is logged and raised again.
RunRouteFailed ==
  /\ call.op = "run" /\ call.pc = "raised"
  /\ call' = [call EXCEPT !.pc = "run_raised"]
  /\ UNCHANGED <<qvars, now, hvars, ret, conf, files, wvars, rvars, epc>>

\* run 89-90 and 103-106: write_text creates the file and fills it, or
\* raises with the file created or not; after the last file run returns.
RunWrite ==
  /\ call.op = "run" /\ call.pc = "returned"
  /\ LET kind == RunWrites[call.wrote + 1]
         written == WithFile(files, kind, call.job_id)
     IN \/ /\ files' = written
           /\ call' = [call EXCEPT
                         !.wrote = @ + 1,
                         !.pc = IF call.wrote + 1 = Len(RunWrites)
                                  THEN "run_returned" ELSE "returned"]
        \/ \E e \in WriteErrors :
             /\ files' \in {files, written}
             /\ call' = [call EXCEPT !.pc = "run_raised", !.error = e]
  /\ UNCHANGED <<qvars, now, hvars, ret, conf, wvars, rvars, epc>>

\* The process dies inside run; a write_text under way may have created
\* its file.
RunCrash ==
  /\ call.op = "run"
  /\ call.pc \notin {"run_returned", "run_raised", "run_crashed"}
  /\ call' = [call EXCEPT !.pc = "run_crashed"]
  /\ IF call.pc = "returned"
       THEN files' \in {files, WithFile(files, RunWrites[call.wrote + 1],
                                        call.job_id)}
       ELSE UNCHANGED files
  /\ UNCHANGED <<qvars, now, hvars, ret, conf, wvars, rvars, epc>>

\* The next call of run, over the files the earlier calls have left.
RunAgain ==
  /\ call.op = "run"
  /\ call.pc \in {"run_returned", "run_raised", "run_crashed"}
  /\ call.runs < MaxRuns
  /\ \E p \in RunPayloads : call' = RunCall(p, call.runs + 1)
  /\ UNCHANGED <<qvars, now, hvars, ret, conf, files, wvars, rvars, epc>>

\* -------------------------------------------------------------- JSScraper
\* What may go wrong in _fetch_async, step by step.
LaunchErrors == {"launch failed"}
GotoErrors == {"navigation timeout"}
LoadErrors == {"load timeout"}
ContentErrors == {"content error"}
NoSession == 0

\* The n-th call of _fetch_async: the url, where the call stands, the
\* session it holds, its error or result, and the sessions that are open
\* and that were closed.
FetchCall(url, n, open, closed) ==
  [op |-> "fetch", url |-> url, n |-> n, pc |-> "create",
   session |-> NoSession, error |-> NoError, result |-> NoScrape,
   open |-> open, closed |-> closed]

\* A close that sits at the end of the try block: skipped by an error.
SessionsAfterTry(open, session, error) ==
  IF error = NoError THEN open \ {session} ELSE open

\* _fetch_async 74-77: finally: if session: await session.close().
SessionsAfterFinally(open, session, error) ==
  IF session # NoSession THEN open \ {session} ELSE open

\* _fetch_async 43: create_session returns a session or raises.
JsCreate ==
  /\ call.op = "fetch" /\ call.pc = "create"
  /\ \/ call' = [call EXCEPT !.session = call.n, !.pc = "goto",
                             !.open = @ \cup {call.n}]
     \/ \E e \in LaunchErrors :
          call' = [call EXCEPT !.error = e, !.pc = "finally"]
  /\ UNCHANGED <<qvars, now, hvars, ret, conf, files, wvars, rvars, epc>>

\* _fetch_async 47: session.goto returns or raises.
JsGoto ==
  /\ call.op = "fetch" /\ call.pc = "goto"
  /\ \/ call' = [call EXCEPT !.pc = "wait"]
     \/ \E e \in GotoErrors :
          call' = [call EXCEPT !.error = e, !.pc = "finally"]
  /\ UNCHANGED <<qvars, now, hvars, ret, conf, files, wvars, rvars, epc>>

\* _fetch_async 51: session.wait_for_load returns or raises.
JsWait ==
  /\ call.op = "fetch" /\ call.pc = "wait"
  /\ \/ call' = [call EXCEPT !.pc = "content"]
     \/ \E e \in LoadErrors :
          call' = [call EXCEPT !.error = e, !.pc = "finally"]
  /\ UNCHANGED <<qvars, now, hvars, ret, conf, files, wvars, rvars, epc>>

\* _fetch_async 53-68: session.get_page_content returns the html, of which
\* the ScrapeResult is built, or raises.
JsContent ==
  /\ call.op = "fetch" /\ call.pc = "content"
  /\ \/ \E r \in BrowserResults(call.url) :
          call' = [call EXCEPT !.result = r, !.pc = "finally"]
     \/ \E e \in ContentErrors :
          call' = [call EXCEPT !.error = e, !.pc = "finally"]
  /\ UNCHANGED <<qvars, now, hvars, ret, conf, files, wvars, rvars, epc>>

\* _fetch_async 70-77: the finally clause, then the result is returned or
\* the error raised.
JsFinally ==
  /\ call.op = "fetch" /\ call.pc = "finally"
  /\ LET left == SessionsAfterFinally(call.open, call.session, call.error)
     IN call' = [call EXCEPT
                   !.open = left,
                   !.closed = @ \cup (call.open \ left),
                   !.pc = IF call.error = NoError
                            THEN "fetch_returned" ELSE "fetch_raised"]
  /\ UNCHANGED <<qvars, now, hvars, ret, conf, files, wvars, rvars, epc>>

\* The next call of fetch, by the same JSScraper.
JsAgain ==
  /\ call.op = "fetch" /\ call.pc \in {"fetch_returned", "fetch_raised"}
  /\ call.n < MaxFetches
  /\ \E u \in RouteUrls :
       call' = FetchCall(u, call.n + 1, call.open, call.closed)
  /\ UNCHANGED <<qvars, now, hvars, ret, conf, files, wvars, rvars, epc>>

\* ----------------------------- reaplex_queue: the fallbacks, one client
\* enqueue 73-84 run with no other client in between: the pipeline, then
\* the LPOP when SADD reported a duplicate.
EnqueueFallbackAlone(s, h, job) ==
  LET res == EnqueuePipeline(s, h, job)
  IN IF res.r = 1
       THEN res
       ELSE [s |-> [res.s EXCEPT !.pending = LPopped(@)], r |-> 0]

\* _dequeue_once 140-152 run with no other client in between: RPOP,
\* started_at = time.time(), HSET; the job is returned.
DequeueOnceFallback(s, t) ==
  IF s.pending = <<>>
    THEN [s |-> s, r |-> NoJob]
    ELSE LET raw == s.pending[Len(s.pending)]
             job_data == [raw EXCEPT !.started_at = t]
         IN [s |-> [s EXCEPT !.pending = RPopped(@),
                             !.processing = HSet(@, job_data.id, job_data)],
             r |-> job_data]

\* ack_failure 207-216 run with no other client in between: HGET, error and
\* failed_at, HSET FAILED, HDEL PROCESSING.
AckFailureFallback(s, id, error, t) ==
  LET raw == HGet(s.processing, id)
  IN IF raw = NoJob
       THEN s
       ELSE LET job_data == [raw EXCEPT !.error = error, !.failed_at = t]
            IN [s EXCEPT !.failed = HSet(@, id, job_data),
                         !.processing = HDel(@, id)]

\* --------------------------------------------------------- AgentOrchestrator
\* What discover_urls may return: a page, a file and a social network url.
DiscoveredUrls ==
  { <<"a", ".", "t", "e", "s", "t">>,
    <<"a", ".", "t", "e", "s", "t", "/", "f", ".", "p", "d", "f">>,
    <<"t", "w", "i", "t", "t", "e", "r", ".", "c", "o", "m">> }

\* run 94-104: the loop over urls is entered with the three counters at 0;
\* log keeps, url by url, the counter that was incremented for it.
OrchCall(urls, force_js) ==
  [op |-> "orchestrate", urls |-> urls, force_js |-> force_js, i |-> 1,
   pc |-> "classify", needs_js |-> FALSE,
   successful |-> 0, failed |-> 0, skipped |-> 0, log |-> <<>>]

\* An except clause that leaves the loop.
AfterFailureBreak(i, n) == n + 1

\* run 130-133: the except clause ends with continue: the next url.
AfterFailure(i, n) == i + 1

\* run 104-116: the next url is classified; a skip is counted and the loop
\* goes on.
OrchClassify ==
  /\ call.op = "orchestrate" /\ call.pc = "classify"
  /\ call.i <= Len(call.urls)
  /\ LET url == call.urls[call.i]
         classification ==
           classify(<< <<"url", JStr(url)>>, <<"render_js", call.force_js>> >>)
     IN IF classification = "skip"
          THEN call' = [call EXCEPT !.skipped = @ + 1, !.i = @ + 1,
                                    !.log = Append(@, "skipped")]
          ELSE call' = [call EXCEPT
                          !.needs_js = (classification = "browser")
                                         \/ Truthy(call.force_js),
                          !.pc = "scrape"]
  /\ UNCHANGED <<qvars, now, hvars, ret, conf, files, wvars, rvars, epc>>

\* run 118-133 over ScraperExecutor.run 71-112: the job id is made of the
\* position of the url and the clock; scraper_executor.run writes the raw
\* and the structured file and returns, or raises an Exception with none,
\* the first or both of them created, which the except clause counts.
OrchScrape ==
  /\ call.op = "orchestrate" /\ call.pc = "scrape"
  /\ LET job_id == <<"j", "o", "b", "_", RunDigits[call.i], "_",
                     RunDigits[now]>>
         raw == WithFile(files, RunWrites[1], job_id)
         both == WithFile(raw, RunWrites[2], job_id)
     IN \/ /\ files' = both
           /\ call' = [call EXCEPT !.successful = @ + 1, !.i = @ + 1,
                                   !.pc = "classify",
                                   !.log = Append(@, "successful")]
        \/ /\ files' \in {files, raw, both}
           /\ call' = [call EXCEPT !.failed = @ + 1,
                                   !.i = AfterFailure(@, Len(call.urls)),
                                   !.pc = "classify",
                                   !.log = Append(@, "failed")]
  /\ UNCHANGED <<qvars, now, hvars, ret, conf, wvars, rvars, epc>>

\* run 135-140: the loop is over and the counters are printed.
OrchSummary ==
  /\ call.op = "orchestrate" /\ call.pc = "classify"
  /\ call.i > Len(call.urls)
  /\ call' = [call EXCEPT !.pc = "summary"]
  /\ UNCHANGED <<qvars, now, hvars, ret, conf, files, wvars, rvars, epc>>

\* ------------------------------------------------------------------- Spec
\* src/queue/queue.py under started workers, producers and a reaper.
Init == InitWith(Deployment(CoreWorkers, CoreHorizon, Payloads))

Next ==
  \/ Tick
  \/ \E p \in conf.payloads : Enqueue(p)
  \/ \E w \in Workers : WLoop(w)
  \/ \E w \in Workers : WDequeueEnter(w)
  \/ \E w \in Workers : WPoll(w)
  \/ \E w \in Workers : WHandler(w)
  \/ \E w \in Workers : WAckSuccess(w)
  \/ \E w \in Workers : WAckFailure(w)
  \/ \E t \in Timeouts : RScan(t)
  \/ \E k \in rkeys : ROne(k)
  \/ RReturn

Spec == Init /\ [][Next]_vars

\* A started worker keeps running its loop: every step of it that stays
\* enabled is eventually taken.
WorkerFairness ==
  \A w \in Workers :
    /\ WF_vars(WLoop(w))
    /\ WF_vars(WDequeueEnter(w))
    /\ WF_vars(WPoll(w))
    /\ WF_vars(WHandler(w))
    /\ WF_vars(WAckSuccess(w))
    /\ WF_vars(WAckFailure(w))

SpecLive == Spec /\ WorkerFairness

\* reaplex_queue/queue.py where the EVAL of _requeue_one may fail over to
\* its plain-command path.
InitReq == InitWith(Deployment(ReqWorkers, MaxTime, {PayloadA}))

NextReq ==
  \/ Next
  \/ \E k \in rkeys : RFallbackGet(k)
  \/ RFallbackPut
  \/ RFallbackDel

SpecReq == InitReq /\ [][NextReq]_vars

\* The same with two fingerprints, so that a reclaimed job meets other
\* pending jobs; one worker and a short clock.
InitOrd == InitWith(Deployment(OrdWorkers, CoreHorizon, Payloads))

SpecOrd == InitOrd /\ [][NextReq]_vars

\* reaplex_queue/queue.py where the EVAL of enqueue may fail over to its
\* pipeline path; no reaper runs.
InitEnq ==
  InitWith(Deployment(EnqWorkers, EnqHorizon, {PayloadA, PayloadAr1}))

NextEnq ==
  \/ Tick
  \/ \E p \in conf.payloads : Enqueue(p)
  \/ \E c \in Enqueuers, p \in conf.payloads : EnqueueEvalRaises(c, p)
  \/ \E c \in Enqueuers : EnqueueFallback(c)
  \/ \E c \in Enqueuers : EnqueueFallbackLPop(c)
  \/ \E w \in Workers : WLoop(w)
  \/ \E w \in Workers : WDequeueEnter(w)
  \/ \E w \in Workers : WPoll(w)
  \/ \E w \in Workers : WHandler(w)
  \/ \E w \in Workers : WAckSuccess(w)
  \/ \E w \in Workers : WAckFailure(w)

SpecEnq == InitEnq /\ [][NextEnq]_vars

\* Workers whose store calls may fail: an EVAL that raises sends dequeue
\* and ack_failure to their plain-command paths, a command of dequeue,
\* ack_success or ack_failure may raise, and a worker's process may die.
InitFault == InitWith(Deployment(FaultWorkers, CoreHorizon, {PayloadA}))

NextFault ==
  \/ Tick
  \/ \E p \in conf.payloads : Enqueue(p)
  \/ \E w \in Workers : WLoop(w)
  \/ \E w \in Workers : WDequeueEnter(w)
  \/ \E w \in Workers : WPoll(w)
  \/ \E w \in Workers : WDequeueEvalRaises(w)
  \/ \E w \in Workers : WDequeueFallbackPop(w)
  \/ \E w \in Workers : WDequeueFallbackPut(w)
  \/ \E w \in Workers : WDequeueRaises(w)
  \/ \E w \in Workers : WBackoff(w)
  \/ \E w \in Workers : WCrash(w)
  \/ \E w \in Workers : WHandler(w)
  \/ \E w \in Workers : WAckSuccess(w)
  \/ \E w \in Workers : WAckSuccessRaises(w)
  \/ \E w \in Workers : WAckFailure(w)
  \/ \E w \in Workers : WAckFailureEvalRaises(w)
  \/ \E w \in Workers : WAckFailureFallbackGet(w)
  \/ \E w \in Workers : WAckFailureFallbackSet(w)
  \/ \E w \in Workers : WAckFailureFallbackDel(w)
  \/ \E w \in Workers : WAckFailureRaises(w)

SpecFault == InitFault /\ [][NextFault]_vars

\* Queue.dequeue turn by turn, under a clock that advances and workers
\* that keep running.
InitPoll == InitWith(Deployment(PollWorkers, PollHorizon, {PayloadA}))

NextPoll ==
  \/ Tick
  \/ \E p \in conf.payloads : Enqueue(p)
  \/ \E w \in Workers : WLoop(w)
  \/ \E w \in Workers : WDequeueEnter(w)
  \/ \E w \in Workers : WPoll(w)
  \/ \E w \in Workers : WHandler(w)
  \/ \E w \in Workers : WAckSuccess(w)
  \/ \E w \in Workers : WAckFailure(w)

PollFairness ==
  /\ WF_vars(Tick)
  /\ \A w \in Workers : WF_vars(WPoll(w))

SpecPoll == InitPoll /\ [][NextPoll]_vars /\ PollFairness

\* Workers that are started and stopped while they run: start() with or
\* without a run timeout, stop() at any moment, Queue.dequeue turn by turn.
\* The clock advances and a worker that can take a step takes it.
InitStop ==
  \E t \in RunTimeouts :
    InitWith(TimedDeployment(StopWorkers, MaxTime, {PayloadA}, t))

NextStop ==
  \/ Tick
  \/ \E p \in conf.payloads : Enqueue(p)
  \/ \E w \in Workers : WStart(w)
  \/ \E w \in Workers : WStop(w)
  \/ \E w \in Workers : WLoop(w)
  \/ \E w \in Workers : WDequeueEnter(w)
  \/ \E w \in Workers : WPoll(w)
  \/ \E w \in Workers : WHandler(w)
  \/ \E w \in Workers : WAckSuccess(w)
  \/ \E w \in Workers : WAckFailure(w)

StopFairness ==
  /\ WF_vars(Tick)
  /\ \A w \in Workers :
       /\ WF_vars(WLoop(w))
       /\ WF_vars(WPoll(w))
       /\ WF_vars(WHandler(w))
       /\ WF_vars(WAckSuccess(w))
       /\ WF_vars(WAckFailure(w))

SpecStop == InitStop /\ [][NextStop]_vars /\ StopFairness

\* The worker loop over a store whose calls may raise: dequeue,
\* ack_success and ack_failure each return or raise.
InitGuard ==
  \E t \in RunTimeouts :
    InitWith(TimedDeployment(GuardWorkers, GuardHorizon, {PayloadA}, t))

NextGuard ==
  \/ Tick
  \/ \E p \in conf.payloads : Enqueue(p)
  \/ \E w \in Workers : WStop(w)
  \/ \E w \in Workers : WLoop(w)
  \/ \E w \in Workers : WDequeueEnter(w)
  \/ \E w \in Workers : WPoll(w)
  \/ \E w \in Workers : WDequeueRaises(w)
  \/ \E w \in Workers : WHandler(w)
  \/ \E w \in Workers : WAckSuccess(w)
  \/ \E w \in Workers : WAckSuccessRaises(w)
  \/ \E w \in Workers : WAckFailure(w)
  \/ \E w \in Workers : WAckFailureRaises(w)
  \/ \E w \in Workers : WBackoff(w)

SpecGuard == InitGuard /\ [][NextGuard]_vars

\* Workers whose handler is job_handler, over a store that does not fail.
InitHandler ==
  InitWith(Deployment(HandlerWorkers, CoreHorizon, HandlerPayloads))

NextHandler ==
  \/ Tick
  \/ \E p \in conf.payloads : Enqueue(p)
  \/ \E w \in Workers : WLoop(w)
  \/ \E w \in Workers : WDequeueEnter(w)
  \/ \E w \in Workers : WPoll(w)
  \/ \E w \in Workers : WJobHandler(w)
  \/ \E w \in Workers : WAckSuccess(w)
  \/ \E w \in Workers : WAckFailure(w)

SpecHandler == InitHandler /\ [][NextHandler]_vars

\* classify applied to a payload, and applied to it again; nothing else
\* runs.
InitClassify ==
  /\ InitSystem(Deployment(0, 1, {}))
  /\ \E p \in ClassifyInputs :
       call = [op |-> "classify", payload |-> p, calls |-> 0,
               result |-> NoResult, before |-> NoResult]

Classify ==
  /\ call.op = "classify"
  /\ call.calls < ClassifyCalls
  /\ call' = [call EXCEPT !.calls = @ + 1,
                          !.result = classify(call.payload),
                          !.before = call.result]
  /\ UNCHANGED <<qvars, now, hvars, ret, conf, files, wvars, rvars, epc>>

SpecClassify == InitClassify /\ [][Classify]_vars

\* One call of route, with fetchers that return or raise.
InitRoute ==
  /\ InitSystem(Deployment(0, 1, {}))
  /\ \E u \in RouteUrls : \E f \in BOOLEAN : call = RouteCall(u, f)

NextRoute == RouteBegin \/ RouteHttp \/ RouteJs

SpecRoute == InitRoute /\ [][NextRoute]_vars

\* Calls of ScraperExecutor.run, one after the other, over a filesystem
\* that keeps what they wrote; a call may be cut short by the death of the
\* process.
InitRun ==
  /\ InitSystem(Deployment(0, 1, {}))
  /\ \E p \in RunPayloads : call = RunCall(p, 1)

NextRun ==
  \/ RunBegin
  \/ RouteBegin
  \/ RouteHttp
  \/ RouteJs
  \/ RunRouteFailed
  \/ RunWrite
  \/ RunCrash
  \/ RunAgain

SpecRun == InitRun /\ [][NextRun]_vars

\* Calls of JSScraper.fetch, one after the other, with a browser whose
\* every step may fail.
InitFetch ==
  /\ InitSystem(Deployment(0, 1, {}))
  /\ \E u \in RouteUrls : call = FetchCall(u, 1, {}, {})

NextFetch ==
  \/ JsCreate
  \/ JsGoto
  \/ JsWait
  \/ JsContent
  \/ JsFinally
  \/ JsAgain

SpecFetch == InitFetch /\ [][NextFetch]_vars

\* Workers that may die while they hold a job, all but the first, and a
\* reaper that keeps calling requeue_stale; the clock advances and every
\* step that stays possible is taken.
InitCrash == InitWith(Deployment(CrashWorkers, CoreHorizon, {PayloadA}))

NextCrash ==
  \/ Next
  \/ \E w \in Workers \ {1} : WCrashHolding(w)

ReaperFairness ==
  /\ WF_vars(\E t \in Timeouts : RScan(t))
  /\ WF_vars(\E k \in rkeys : ROne(k))
  /\ WF_vars(RReturn)

SpecCrash ==
  InitCrash /\ [][NextCrash]_vars /\ WF_vars(Tick) /\ WorkerFairness
            /\ ReaperFairness

\* The queue, its workers and a reaper whose timeout no handler outlasts:
\* the clock stops MaxTimeout after the first dequeue can happen and
\* requeue_stale is called with MaxTimeout.
InitFresh == InitWith(Deployment(CoreWorkers, MaxTimeout + 1, Payloads))

NextFresh ==
  \/ Tick
  \/ \E p \in conf.payloads : Enqueue(p)
  \/ \E w \in Workers : WLoop(w)
  \/ \E w \in Workers : WDequeueEnter(w)
  \/ \E w \in Workers : WPoll(w)
  \/ \E w \in Workers : WHandler(w)
  \/ \E w \in Workers : WAckSuccess(w)
  \/ \E w \in Workers : WAckFailure(w)
  \/ RScan(MaxTimeout)
  \/ \E k \in rkeys : ROne(k)
  \/ RReturn

SpecFresh == InitFresh /\ [][NextFresh]_vars

\* AgentOrchestrator.run from the head of its loop, over every list of one
\* to MaxUrls discovered urls, with and without force_js.
InitOrch ==
  /\ InitSystem(Deployment(0, 1, {}))
  /\ \E n \in 1..MaxUrls :
       \E urls \in [1..n -> DiscoveredUrls], force_js \in {JTrue, JFalse} :
         call = OrchCall(urls, force_js)

NextOrch ==
  \/ OrchClassify
  \/ OrchScrape
  \/ OrchSummary

SpecOrch == InitOrch /\ [][NextOrch]_vars

\* ============================================================== properties
Ids == 1..Len(created)
InPending == {pending[n].id : n \in DOMAIN pending}
InProcessing == DOMAIN processing
InFailed == DOMAIN failed
\* In how many of PENDING, PROCESSING, DONE, FAILED job i is.
Memberships(i) ==
  Cardinality({k \in {"pending", "processing", "done", "failed"} :
                 \/ k = "pending" /\ i \in InPending
                 \/ k = "processing" /\ i \in InProcessing
                 \/ k = "done" /\ i \in done
                 \/ k = "failed" /\ i \in InFailed})
Visible == InPending \cup InProcessing \cup done \cup InFailed
\* Two payloads are the same dict: the same key/value pairs in any order.
SameDict(p, q) == {p[n] : n \in DOMAIN p} = {q[n] : n \in DOMAIN q}
JobsFor(p) == {i \in Ids : SameDict(created[i].payload, p)}
NoEnqueueInFlight == \A c \in Enqueuers : epc[c].pc = "idle"
ReaperBetweenJobs == rpc \in {"idle", "iter"}

\* C1 -- Dedup.  Once every enqueue call has returned, for every payload
\* that was submitted exactly one call returned true and exactly one job
\* with that payload is visible in PENDING, PROCESSING, DONE or FAILED.
C1_Dedup ==
  NoEnqueueInFlight =>
    \A p \in Payloads :
      JobsFor(p) # {} =>
        /\ Cardinality({i \in JobsFor(p) : created[i].fresh}) = 1
        /\ Cardinality(JobsFor(p) \cap Visible) = 1

\* C2 -- State exclusivity.  Whenever the reaper is not in the middle of
\* moving a job, every job id is in at most one of PENDING, PROCESSING,
\* FAILED, DONE.
C2_Exclusive ==
  ReaperBetweenJobs => \A i \in Ids : Memberships(i) <= 1

\* C3 -- Conservation.  Whenever the reaper is not in the middle of moving a
\* job, every enqueued job is in at least one and at most two of the state
\* sets, and in two only while a worker is inside ack_success for it.
C3_Conservation ==
  ReaperBetweenJobs =>
    \A i \in Ids :
      /\ Memberships(i) >= 1
      /\ Memberships(i) <= 2
      /\ Memberships(i) = 2 =>
           \E w \in Workers : wpc[w] = "ack_success" /\ wjob[w].id = i

\* C4 -- At-least-once delivery.  Under workers that keep polling, every job
\* whose enqueue succeeded has its handler invoked at least once, as long
\* as the clock leaves room for a call of dequeue.
C4_AtLeastOnce ==
  \A i \in 1..MaxJobs :
    (Len(created) >= i) ~>
      (Len(created) >= i /\ (handled[i] >= 1 \/ now = conf.horizon))

C4_Witness ==
  \E i \in Ids : handled[i] >= 1 /\ i \in done

\* C5 -- Attempt bound.  Every stored job has attempts <= MAX_ATTEMPTS and
\* every job in PENDING has attempts < MAX_ATTEMPTS; a job whose requeue
\* reached MAX_ATTEMPTS is in FAILED with the timeout error.
C5_AttemptBound ==
  /\ \A n \in DOMAIN pending : pending[n].attempts < MAX_ATTEMPTS
  /\ \A i \in InProcessing : processing[i].attempts <= MAX_ATTEMPTS
  /\ \A i \in InFailed : failed[i].attempts <= MAX_ATTEMPTS
  /\ \A i \in InFailed :
       failed[i].attempts >= MAX_ATTEMPTS => failed[i].error = TimeoutError

C5_Witness ==
  \E i \in InFailed :
    /\ failed[i].attempts = MAX_ATTEMPTS
    /\ failed[i].error = TimeoutError
    /\ i \notin InPending

\* C6 -- FAILED is permanent.  No step removes a job from FAILED or changes
\* its stored error or failed_at.
C6_FailedPermanent ==
  [][\A i \in InFailed :
       /\ i \in DOMAIN failed'
       /\ failed'[i].error = failed[i].error
       /\ failed'[i].failed_at = failed[i].failed_at]_vars

C6_Witness ==
  \E i \in InFailed, j \in InFailed :
    i # j /\ failed[i].failed_at < failed[j].failed_at

\* C7 -- Every job in PROCESSING has a non-null started_at.
C7_ProcessingStarted ==
  \A i \in InProcessing : processing[i].started_at # NoTime

C7_Witness ==
  \E i \in InProcessing : processing[i].started_at = now /\ now > 1

\* C8 -- started_at is null outside PROCESSING: every record held in
\* PENDING or in FAILED has started_at null.
C8_StartedOnlyInProcessing ==
  /\ \A n \in DOMAIN pending : pending[n].started_at = NoTime
  /\ \A i \in InFailed : failed[i].started_at = NoTime

\* C9 -- SEEN only grows, and an enqueue of a payload that is the same dict
\* as one already accepted returns false and changes none of SEEN, PENDING,
\* PROCESSING, DONE, FAILED.
C9_DuplicateNoOp ==
  [][/\ seen \subseteq seen'
     /\ \A p \in Payloads :
          (Enqueue(p) /\ JobsFor(p) # {}) =>
            (ret' = Returned("enqueue", FALSE, 0) /\ UNCHANGED qvars)]_vars

C9_Witness ==
  /\ ret = Returned("enqueue", FALSE, 0)
  /\ Cardinality(seen) = 2
  /\ \E i \in done : created[i].payload = PayloadAr1
  /\ \E i \in InFailed : created[i].payload = PayloadA

\* C10 -- enqueue is never half-applied.  In every state a fingerprint is
\* in SEEN exactly when a job with that payload is held by the queue.
C10_NotHalfApplied ==
  \A p \in Payloads :
    (hash_payload(p) \in seen) <=> (JobsFor(p) \cap Visible # {})

\* C12 -- FIFO.  While requeue_stale moves nothing, a job leaves PENDING
\* only when it is the oldest one there: jobs are dequeued in the order in
\* which their enqueue calls succeeded (ids are minted in that order).
C12_Fifo ==
  [][\A k \in InPending :
       k \notin {pending'[n].id : n \in DOMAIN pending'} =>
         \A j \in InPending : k <= j]_vars

C12_Witness ==
  /\ Len(created) = 2
  /\ InPending = {}
  /\ \E w \in Workers : wpc[w] = "ack_success" /\ wjob[w].id = 2
  /\ 1 \in done

\* The job as _requeue_one must leave it: one more attempt, no started_at.
Reclaimed(job) == [job EXCEPT !.attempts = @ + 1, !.started_at = NoTime]

\* C14 -- A _requeue_one step of requeue_stale on a stale job of PROCESSING
\* removes it from PROCESSING with attempts + 1 and started_at cleared, into
\* PENDING when attempts remain and otherwise into FAILED with the timeout
\* error and failed_at, not into PENDING.
C14_RequeueMoves ==
  [][\A k \in rkeys :
       (ROne(k) /\ k \in InProcessing
          /\ now - processing[k].started_at > rtimeout) =>
         /\ k \notin DOMAIN processing'
         /\ IF Reclaimed(processing[k]).attempts < MAX_ATTEMPTS
              THEN /\ pending' = LPush(pending, Reclaimed(processing[k]))
                   /\ failed' = failed
              ELSE /\ pending' = pending
                   /\ k \in DOMAIN failed'
                   /\ failed'[k] = [Reclaimed(processing[k]) EXCEPT
                                      !.error = TimeoutError,
                                      !.failed_at = now]]_vars

\* C15 -- A _requeue_one step of requeue_stale on a PROCESSING job with
\* now - started_at <= timeout (elapsed == timeout included) leaves the job
\* in PROCESSING as it was, leaves PENDING and FAILED alone and does not
\* count the job: requeue_stale goes on to its other keys and its return
\* value with the count it had.
C15_FreshUntouched ==
  [][\A k \in rkeys :
       (ROne(k) /\ k \in InProcessing
          /\ now - processing[k].started_at <= rtimeout) =>
         /\ k \in DOMAIN processing'
         /\ processing'[k] = processing[k]
         /\ pending' = pending
         /\ failed' = failed
         /\ rpc' = "iter"
         /\ rkeys' = rkeys \ {k}
         /\ rmoved' = rmoved]_vars

\* The job the next single shot of dequeue returns: the tail of PENDING.
NextDispatched(l) == l[Len(l)].id

\* C13 -- When _requeue_one pushes a reclaimed job into a PENDING that
\* already holds other jobs, the next dequeue returns the reclaimed job.
C13_RequeuedNext ==
  [][(rpc = "put" /\ rpc' = "del" /\ pending # <<>> /\ pending' # pending) =>
       NextDispatched(pending') = rjob.id]_vars

\* C19 -- An enqueue whose EVAL raised an error ends there: the step the
\* call takes next sends no store command, so it changes no key of the
\* queue.
C19_NoRetry ==
  [][\A c \in Enqueuers :
       (epc[c].pc = "pipe" /\ epc'[c] # epc[c]) => UNCHANGED qvars]_vars

\* C16 -- from any state with no requeue_stale in progress, two calls of
\* requeue_stale(T) run one after the other with no queue operation between
\* them, the second at the same or a later clock reading, return n1 and n2
\* with n2 <= n1.
C16_Monotone ==
  rpc = "idle" =>
    \A T \in Timeouts, t2 \in now..conf.horizon :
      \A keys \in HScanReplies(processing) :
        LET first == RequeueStaleScript(Store, keys, now, T)
        IN /\ ~first.raised
           /\ \A again \in HScanReplies(first.s.processing) :
                LET second == RequeueStaleScript(first.s, again, t2, T)
                IN ~second.raised /\ second.n <= first.n

NoDequeueInFlight == \A w \in Workers : wpc[w] # "deq_put"

\* C11 -- Whenever no dequeue is between its two commands, every job whose
\* enqueue succeeded is held by the queue: a job popped from PENDING is in
\* PROCESSING (or has moved on to DONE or FAILED), even after a client died
\* inside dequeue.
C11_DequeueAtomic ==
  NoDequeueInFlight => \A i \in Ids : i \in Visible

\* C17 -- ack_failure is one atomic step: a step that writes a job into
\* FAILED with a handler's error finds the job in PROCESSING and removes
\* it from PROCESSING in the same step.
C17_AckFailureAtomic ==
  [][\A i \in Ids :
       (/\ i \in DOMAIN failed'
        /\ failed'[i].error \notin {NoError, TimeoutError}
        /\ (i \notin DOMAIN failed \/ failed'[i] # failed[i])) =>
         (i \in InProcessing /\ i \notin DOMAIN processing')]_vars

\* C18 -- dequeue(timeout) terminates, and when it returns None the
\* deadline has passed and the call has changed no key of the queue.
C18_DequeueTerminates ==
  /\ \A w \in Workers : (wpc[w] = "poll") ~> (wpc[w] # "poll")
  /\ [][\A w \in Workers :
          (wpc[w] = "poll" /\ wpc'[w] = "loop") =>
            /\ now >= wdead[w]
            /\ UNCHANGED qvars
            /\ ret' = Returned("dequeue", FALSE, 0)]_vars

C18_Witness ==
  /\ ret = Returned("dequeue", FALSE, 0)
  /\ pending = <<>>
  /\ now = PollHorizon
  /\ \E w \in Workers : wpc[w] = "poll" /\ wdead[w] = now

InAckFailure == {"ack_failure", "ackf_get", "ackf_set", "ackf_del"}

\* C20 -- ack_failure is called for a delivery only when the handler
\* raised, never after ack_success was called for it: a worker at or inside
\* ack_failure holds an error raised by the handler.
C20_AckMatchesHandler ==
  \A w \in Workers : wpc[w] \in InAckFailure => werr[w] \in HandlerErrors


\* ------------------------------------------------------ Worker lifecycle
\* The run timeout of worker w has elapsed.
TimeoutElapsed(w) == conf.timeout # NoTime /\ now - wstart[w] > conf.timeout
StopRequested(w) == wshut[w] \/ TimeoutElapsed(w)
TakesJob(w) == wjob[w] = NoJob /\ wjob'[w] # NoJob

\* C21: once the shutdown flag of a worker is set, no step moves a job from
\* PENDING to PROCESSING on behalf of that worker, not even when the flag
\* was set while the worker was inside queue.dequeue.
C21_NoDequeueAfterStop ==
  [][\A w \in Workers :
       wshut[w] => ~(TakesJob(w) /\ wjob'[w].id \in DOMAIN processing')]_vars

\* C22: when stop() was requested or the run timeout has elapsed while a
\* worker runs the handler of job j, start() eventually returns, and by
\* then the ack of j has been performed: j is in DONE or in FAILED.
C22_StopReturns ==
  \A w \in Workers : \A j \in 1..MaxJobs :
    (StopRequested(w) /\ wpc[w] = "handler" /\ wjob[w].id = j)
      ~> (wpc[w] = "stopped" /\ j \in done \cup InFailed)

\* A stop request or an elapsed run timeout has met a job in flight, and
\* the handler has returned or raised.
C22_Witness ==
  /\ \E w \in Workers : wshut[w] /\ wpc[w] = "ack_success"
                                   /\ wjob[w].id \in InProcessing
  /\ \E w \in Workers : TimeoutElapsed(w) /\ wpc[w] \in {"loop", "stopped"}

\* C23: start() returns only after stop() or the run timeout, and after
\* every exception of a queue call (dequeue, ack_success, ack_failure) the
\* worker reaches the head of the loop again through the back-off.
C23_BackoffAfterEveryFault ==
  [][\A w \in Workers :
       /\ (wpc[w] # "stopped" /\ wpc'[w] = "stopped") => StopRequested(w)
       /\ (werr[w] \in StoreErrors /\ wpc[w] # "loop" /\ wpc'[w] = "loop")
            => wpc[w] = "backoff"
     ]_vars

\* ------------------------------------------------------------- classifier
\* The rules of the classifier, by number, and what each one answers.
NoUrl(payload) == ~Truthy(Get(payload, "url", JStr(<<>>)))
UrlLower(payload) == StrLower(Get(payload, "url", JStr(<<>>)).v)

Rule(n, payload) ==
  CASE n = 1 -> NoUrl(payload)
    [] n = 2 -> Get(payload, "render_js", JNone) = JTrue
    [] n = 3 -> HasSkipExtension(UrlLower(payload))
    [] n = 4 -> HasBrowserDomain(UrlLower(payload))
    [] OTHER -> TRUE

RuleAnswer == <<"skip", "browser", "skip", "browser", "html">>

FirstRule(payload) ==
  RuleAnswer[CHOOSE n \in DOMAIN RuleAnswer :
               Rule(n, payload) /\ \A m \in 1..(n - 1) : ~Rule(m, payload)]

\* C26: the result of classify is the answer of the first rule that matches
\* the payload, in the order no url, render_js true, skip extension,
\* browser domain, default; and a second call on the same payload gives the
\* same result.
C26_FirstMatchingRule ==
  (call.op = "classify" /\ call.calls >= 1) =>
    /\ call.result = FirstRule(call.payload)
    /\ call.calls >= 2 => call.result = call.before

\* classify has answered skip for a url on a browser domain with a skip
\* extension and no render_js: the third rule came before the fourth.
C26_Witness ==
  /\ call.op = "classify" /\ call.calls = 2 /\ call.result = "skip"
  /\ Rule(3, call.payload) /\ Rule(4, call.payload)
  /\ ~Rule(1, call.payload) /\ ~Rule(2, call.payload)

\* ---------------------------------------------------------------- handler
Held(i) == \E w \in Workers : wjob[w] # NoJob /\ wjob[w].id = i
InvalidPayload(payload) ==
  NoUrl(payload) \/ classify(payload) \notin EXECUTORS \cup {"skip"}

\* C24: a job whose payload has no url, or whose classifier result the
\* handler does not know, is never in DONE: its handler run ends in
\* ack_failure and FAILED.
C24_InvalidPayloadFails ==
  \A i \in Ids : InvalidPayload(created[i].payload) =>
    /\ i \notin done
    /\ (handled[i] >= 1 /\ ~Held(i)) => i \in InFailed

\* C25: a job whose payload classify maps to skip has no executor run for
\* it; its handler returns normally, so the worker goes to ack_success, the
\* job is never in FAILED and is in DONE once the worker has let go of it.
C25_SkipNotExecuted ==
  \A i \in Ids : classify(created[i].payload) = "skip" =>
    /\ ran[i] = {}
    /\ i \notin InFailed
    /\ \A w \in Workers :
         (wjob[w] # NoJob /\ wjob[w].id = i) =>
           wpc[w] \in {"handler", "ack_success"}
    /\ (handled[i] >= 1 /\ ~Held(i)) => i \in done

\* A skipped file and a payload without url have been through the handler
\* and are in DONE, while another job had its executor run.
C25_Witness ==
  /\ \E i \in Ids : /\ created[i].payload = PayloadFile
                     /\ handled[i] = 1 /\ i \in done
  /\ \E i \in Ids : /\ NoUrl(created[i].payload)
                     /\ handled[i] = 1 /\ i \in done
  /\ \E i \in Ids : ran[i] # {}

\* ----------------------------------------------------------------- router
RouteOver == call.op = "route" /\ call.pc \in {"returned", "raised"}
HttpFailed == call.http >= 1 /\ call.fetched = NoScrape
HttpGaveShell == call.fetched # NoScrape /\ _looks_js_heavy(call.fetched.html)
HttpAnsweredPage == call.got # NoResponse /\ ~_looks_js_heavy(call.got.text)

\* C27: when the server has answered the HTTP fetcher with a body that
\* _looks_js_heavy does not take for a JS shell, the browser is never
\* invoked and a route that is over has returned the HTTP result with that
\* body.
C27_StaticPageNoBrowser ==
  (call.op = "route" /\ HttpAnsweredPage) =>
    /\ call.js = 0
    /\ RouteOver =>
         /\ call.pc = "returned"
         /\ call.result = call.fetched
         /\ call.result.scraper_type = "html"
         /\ call.result.html = call.got.text

\* C28: in a call of route the HTTP fetcher is invoked at most once and the
\* browser is invoked at most once, whatever each of them does: the HTTP
\* fetcher returns a page, returns a JS shell or raises, the browser returns
\* or raises.  No second browser attempt follows a first: at each of the
\* places where route calls the browser, the browser's exception leaves
\* route.
C28_NoRetries ==
  call.op = "route" =>
    /\ call.http <= 1
    /\ call.js <= 1
    /\ \A site \in BrowserCallSites : RouteAfterBrowserError(site) = "raised"

\* C29: with force_js false, when the HTTP fetcher raised or returned a JS
\* shell, a route that returns has invoked the browser and returns the
\* browser's result, whose scraper_type is "js", and a route that is over
\* has invoked the browser; with force_js true the HTTP fetcher is never
\* invoked and the browser is.
C29_Fallback ==
  call.op = "route" =>
    /\ (~call.force_js /\ RouteOver /\ (HttpFailed \/ HttpGaveShell)) =>
         /\ call.js >= 1
         /\ call.pc = "returned" =>
              (call.result = call.rendered
                 /\ call.result.scraper_type = "js")
    /\ call.force_js =>
         /\ call.http = 0
         /\ RouteOver => call.js = 1
         /\ call.pc = "returned" =>
              (call.result = call.rendered
                 /\ call.result.scraper_type = "js")

\* route has returned the browser's result after the server had answered
\* the HTTP fetcher with a root hook and the fetcher had raised.
C29_Witness ==
  /\ RouteOver /\ ~call.force_js /\ call.pc = "returned"
  /\ HttpFailed /\ call.got # NoResponse /\ call.got.text = BodyRoot
  /\ call.js = 1 /\ call.result.scraper_type = "js"

\* -------------------------------------------------------- ScraperExecutor
RouterFailed == call.op = "run" /\ call.pc = "run_raised"
                  /\ call.error \in BrowserErrors

\* C30: whatever happened inside the calls of run so far, a failure or the
\* death of the process included, every job id with a structured file has
\* a raw file; and a call of run whose router failed has raised the
\* router's error and has left the files as it found them.
C30_StructuredImpliesRaw ==
  /\ files.structured \subseteq files.raw
  /\ RouterFailed => (files = call.before /\ call.wrote = 0)

\* The router has failed in a call of run that found the raw file of a job
\* without its structured file, left by a call that died between the two
\* writes.
C30_Witness ==
  /\ RouterFailed
  /\ call.job_id \in files.raw \ files.structured

RunOver == call.op = "run" /\ call.pc \in {"run_returned", "run_raised"}

\* C31: when a call of run has returned or raised, the raw file and the
\* structured file of its job id both exist or neither does.
C31_ArtifactsAtomic ==
  RunOver => (call.job_id \in files.raw <=> call.job_id \in files.structured)

\* -------------------------------------------------------------- JSScraper
FetchOver == call.op = "fetch" /\ call.pc \in {"fetch_returned", "fetch_raised"}

\* C32: when a call of JSScraper fetch is over, by a return or by an error
\* of goto, wait_for_load or get_page_content, the session it created has
\* been closed and no session is open; during a call no session but its
\* own is open.
C32_SessionScoped ==
  call.op = "fetch" =>
    /\ call.open \subseteq {call.session}
    /\ FetchOver =>
         /\ call.open = {}
         /\ call.session # NoSession => call.session \in call.closed

\* The third call has raised the error of get_page_content, and the
\* sessions of the three calls are closed.
C32_Witness ==
  /\ FetchOver /\ call.error \in ContentErrors
  /\ call.closed = {1, 2, 3}

\* ------------------------------------------------- duplicate enqueue
\* The jobs whose enqueue found the fingerprint in SEEN: not those of a
\* call that has yet to run its SADD.
Duplicates ==
  {i \in Ids : /\ ~created[i].fresh
               /\ \A c \in Enqueuers :
                    ~(epc[c].pc = "pipe" /\ epc[c].job.id = i)}

\* C33: on the pipeline path of enqueue, under every interleaving with
\* other enqueues and dequeues, the job pushed for a duplicate payload is
\* never delivered to a worker, and once every enqueue has returned the
\* duplicates are gone from PENDING and every accepted job is still held
\* by the queue.
C33_DuplicateRemoved ==
  /\ Duplicates \cap (InProcessing \cup done \cup InFailed) = {}
  /\ NoEnqueueInFlight =>
       \A i \in Ids : created[i].fresh <=> i \in Visible

\* ------------------------------------------------------ bounded delivery
\* The times dequeue has returned job i: once for every handler run and
\* once for every worker that holds it and has yet to call the handler.
Delivered(i) ==
  handled[i] + Cardinality({w \in Workers : wpc[w] = "handler" /\ wjob[w].id = i})

\* C34: over its lifetime a job is returned by dequeue at most MAX_ATTEMPTS
\* times.
C34_BoundedDelivery == \A i \in Ids : Delivered(i) <= MAX_ATTEMPTS

\* A job was delivered MAX_ATTEMPTS times and its last requeue sent it to
\* FAILED.
C34_Witness ==
  \E i \in InFailed :
    /\ Delivered(i) = MAX_ATTEMPTS
    /\ failed[i].error = TimeoutError

\* --------------------------------------------------- eventual resolution
Resolved(i) ==
  /\ i \in done \cup InFailed
  /\ i \notin InPending \cup InProcessing

\* C35: with a worker that keeps polling and a reaper that keeps calling
\* requeue_stale, while other workers may die between dequeue and ack,
\* every enqueued job is eventually in DONE or FAILED and out of PENDING
\* and PROCESSING for good.
C35_EventuallyResolved ==
  \A i \in 1..MaxJobs : [](i \in Ids => <>[]Resolved(i))

\* ------------------------------------------------- superseded delivery
\* requeue_stale has reclaimed the job from worker w since w dequeued it:
\* the job is back in PENDING, or in PROCESSING for a later delivery, with
\* more attempts than w was given, and no requeue is half done.
Superseded(w) ==
  /\ wjob[w] # NoJob
  /\ rpc \in {"idle", "iter"}
  /\ \/ \E n \in DOMAIN pending :
          /\ pending[n].id = wjob[w].id
          /\ pending[n].attempts > wjob[w].attempts
          /\ wjob[w].id \notin InProcessing
     \/ /\ wjob[w].id \in InProcessing
        /\ processing[wjob[w].id].attempts > wjob[w].attempts

\* C36: an ack_failure by a worker whose delivery requeue_stale has
\* superseded changes no key of the queue, also when another worker has
\* dequeued the job since and is running its handler.
C36_StaleAckNoEffect ==
  [][\A w \in Workers :
       (wpc[w] = "ack_failure" /\ wpc'[w] = "loop" /\ Superseded(w))
         => UNCHANGED qvars]_vars

\* ------------------------------------------- exactly once, no staleness
Ended(i) == i \in done \cup InFailed

\* C37: with no crash, no store error and no handler that outlasts the
\* timeout of requeue_stale, the handler of a job is invoked at most once,
\* exactly once when the job has ended; an ended job is in exactly one of
\* DONE and FAILED and in no other state set, and a job that has left
\* PENDING never returns to it.
C37_ExactlyOnce ==
  /\ [](\A i \in Ids :
          /\ handled[i] <= 1
          /\ Ended(i) => handled[i] = 1 /\ Memberships(i) = 1)
  /\ [][\A i \in Ids : i \notin InPending => i \notin InPending']_vars

\* One job is in DONE and another in FAILED, each after one handler run,
\* and requeue_stale has been called.
C37_Witness ==
  /\ \E i \in done, j \in InFailed : handled[i] = 1 /\ handled[j] = 1
  /\ ret.op = "requeue_stale"

\* ------------------------------------------------ fallback against script
EnqueueAgrees ==
  \A p \in Payloads :
    LET h == hash_payload(p)
        job == Job(Len(created) + 1, p)
    IN EnqueueFallbackAlone(Store, h, job) = EnqueueScript(Store, h, job)

DequeueAgrees == DequeueOnceFallback(Store, now) = DequeueOnceScript(Store, now)

AckFailureAgrees ==
  \A i \in 1..MaxJobs, e \in HandlerErrors :
    AckFailureFallback(Store, i, e, now) = AckFailureScript(Store, i, e, now).s

RequeueStaleAgrees ==
  \A k \in InProcessing, T \in Timeouts :
    LET script == RequeueOneScript(Store, k, now, T, MAX_ATTEMPTS)
        plain == RequeueOneFallback(Store, k, now, T)
    IN ~script.raised /\ script.s = plain.s /\ script.r = plain.r

\* C38: for one client and a store that does not fail, on every state of
\* the store the plain-command path of enqueue, dequeue, ack_failure and
\* requeue_stale returns what the scripted path returns and leaves SEEN,
\* PENDING, PROCESSING, DONE and FAILED as the scripted path leaves them.
C38_FallbackAgrees ==
  /\ EnqueueAgrees
  /\ DequeueAgrees
  /\ AckFailureAgrees
  /\ RequeueStaleAgrees

\* ------------------------------------------------------ stop before start
\* C39: a stop requested on a constructed worker before start() begins to
\* loop is kept: from then on the worker takes no job.
C39_StopBeforeStartKept ==
  \A w \in Workers :
    []((wpc[w] = "new" /\ wshut[w]) => [](wjob[w] = NoJob))


\* -------------------------------------------------------- AgentOrchestrator
Counted(kind) == Cardinality({k \in DOMAIN call.log : call.log[k] = kind})

\* C40: when the loop of run is over every discovered url was processed
\* once, in order, and was counted in one of successful, failed and
\* skipped: each counter is the number of urls that ended that way and the
\* three add up to the number of urls; a failed url is followed by the
\* next one.
C40_EveryUrlCounted ==
  call.op = "orchestrate" =>
    /\ call.successful = Counted("successful")
    /\ call.failed = Counted("failed")
    /\ call.skipped = Counted("skipped")
    /\ call.pc = "classify" => Len(call.log) = call.i - 1
    /\ call.pc = "summary" =>
         /\ Len(call.log) = Len(call.urls)
         /\ call.successful + call.failed + call.skipped = Len(call.urls)

\* The loop is over after a first url that failed and left its raw file
\* alone, a second that was skipped and a third that was scraped into its
\* two files.
C40_Witness ==
  /\ call.op = "orchestrate" /\ call.pc = "summary"
  /\ call.log = <<"failed", "skipped", "successful">>
  /\ Cardinality(files.raw) = 2 /\ Cardinality(files.structured) = 1
====
